---- MODULE Spec2Model ----
(***************************************************************************)
(* Model of mqtt_display_client.py: the LD2450 radar occupancy debouncer,  *)
(* the aggregate display power intent, the single-flight shell command     *)
(* executor and the diff-publish handlers of MqttDisplayClient.            *)
(*                                                                         *)
(* Every handler of the client runs as one step, and so does the expiry of *)
(* an off-delay timer together with its callback.  Python strings are TLA+ *)
(* strings, None is the string "None" (or the empty tuple where the value  *)
(* is structured), bytes are sequences of 0..255.  dist_mm is kept in      *)
(* tenths of a millimetre (2236 stands for 223.6).  _set_backlight is not  *)
(* registered in topic_config and is never called, so it has no action.    *)
(***************************************************************************)
EXTENDS Integers, Sequences, FiniteSets, TLC

(***************************************************************************)
(* Program constants                                                       *)
(***************************************************************************)
IDLE == ">_"

off_delay == 120

REPORT_HEADER == <<170, 255, 3, 0>>

REPORT_TAIL == <<85, 204>>

(***************************************************************************)
(* Bounds of the model                                                     *)
(***************************************************************************)
\* seconds by which one step of the clock advances the time
ClockStep == 60

Sensors == {1, 2}

RC == {0, 1}

None == "None"

NoData == << >>

(***************************************************************************)
(* Configuration: the [shellCommands] table of the ini file, keys upper    *)
(* cased by read_client_config                                             *)
(***************************************************************************)
commands ==
  [c \in {"DISPLAYEIN", "DISPLAYAUS", "REBOOT"} |->
     CASE c = "DISPLAYEIN" -> "vcgencmd display_power 1"
       [] c = "DISPLAYAUS" -> "vcgencmd display_power 0"
       [] OTHER -> "sudo reboot"]

reserved_panel_names == {"DEFAULT", "URL", "BLANK", "RELOAD"}

\* the panels __init__ enters after read_client_config
InitPanels == {"DEFAULT", "URL", "BLANK"}

\* payloads that reach the shell topic from the bus
ShellPayloads == {"displayein", " DisplayAus ", "REBOOT", "poweroff"}

\* str.strip().upper() on the texts that occur
StripUpper(msg) ==
  CASE msg = "displayein" -> "DISPLAYEIN"
    [] msg = "displayaus" -> "DISPLAYAUS"
    [] msg = " DisplayAus " -> "DISPLAYAUS"
    [] msg = "REBOOT" -> "REBOOT"
    [] msg = "poweroff" -> "POWEROFF"
    [] OTHER -> msg

\* str.upper() on the backlight values and the panel keys
Upper(msg) ==
  CASE msg = "on" -> "ON"
    [] msg = "off" -> "OFF"
    [] msg = "kitchen" -> "KITCHEN"
    [] msg = "default" -> "DEFAULT"
    [] OTHER -> msg

\* str.capitalize() on the shell command ids
Capitalize(msg) ==
  CASE msg = "DISPLAYEIN" -> "Displayein"
    [] msg = "DISPLAYAUS" -> "Displayaus"
    [] msg = "REBOOT" -> "Reboot"
    [] OTHER -> msg

(***************************************************************************)
(* Radar payloads                                                          *)
(***************************************************************************)
Min(a, b) == IF a < b THEN a ELSE b

Max(a, b) == IF a > b THEN a ELSE b

\* int.to_bytes(2, 'little', signed=True) of the sensor's firmware
ToBytesLE16(v) == LET u == v % 65536 IN <<u % 256, u \div 256>>

\* one 8-byte target slot: x, y and four further bytes
Slot(x, y, rest) == ToBytesLE16(x) \o ToBytesLE16(y) \o rest

EmptySlot == Slot(0, 0, <<0, 0, 0, 0>>)

\* the 24-byte payloads the model feeds to the sensors
Frames ==
  { EmptySlot \o EmptySlot \o EmptySlot,
    Slot(5, 0, <<1, 0, 64, 1>>) \o EmptySlot \o EmptySlot,
    Slot(100, 200, <<0, 0, 0, 0>>) \o EmptySlot \o EmptySlot,
    Slot(-100, 200, <<16, 0, 64, 1>>) \o EmptySlot \o EmptySlot,
    Slot(100, 200, <<0, 0, 0, 0>>) \o EmptySlot \o Slot(3, 4, <<0, 0, 0, 0>>) }

\* the payload with target 1 at x = 100, y = 200 and two zero slots
OneTargetFrame == Slot(100, 200, <<0, 0, 0, 0>>) \o EmptySlot \o EmptySlot

\* a variant that reads the low byte alone
from_bytes_low(b) == b[1]

\* int.from_bytes(b, byteorder='little', signed=True) for two bytes
from_bytes(b) ==
  LET u == b[1] + 256 * b[2] IN IF u >= 32768 THEN u - 65536 ELSE u

RECURSIVE ISqrtIn(_, _, _)
\* the largest r in lo..hi with r * r <= n
ISqrtIn(n, lo, hi) ==
  IF lo >= hi THEN lo
  ELSE LET mid == (lo + hi + 1) \div 2 IN
       IF mid * mid <= n THEN ISqrtIn(n, mid, hi) ELSE ISqrtIn(n, lo, mid - 1)

\* a variant that rounds the distance to whole millimetres
dist_mm_whole(x, y) ==
  LET n == x * x + y * y
      r == ISqrtIn(n, 0, Max(x, -x) + Max(y, -y))
  IN IF (2 * r + 1) * (2 * r + 1) <= 4 * n THEN 10 * (r + 1) ELSE 10 * r

\* round((x**2 + y**2)**0.5, 1), in tenths
dist_mm(x, y) ==
  LET n == x * x + y * y
      r == ISqrtIn(100 * n, 0, 10 * (Max(x, -x) + Max(y, -y)))
  IN IF (2 * r + 1) * (2 * r + 1) <= 400 * n THEN r + 1 ELSE r

\* a variant of the loop that keeps the slots whose x is not zero
ParseTargetsByX(data, i) ==
  LET T(k) ==
        LET x == from_bytes(SubSeq(data, 8 * k + 1, 8 * k + 2))
            y == from_bytes(SubSeq(data, 8 * k + 3, 8 * k + 4))
        IN IF k >= i /\ x # 0
           THEN << [id |-> k + 1, x_mm |-> x, y_mm |-> y, dist_mm |-> dist_mm(x, y)] >>
           ELSE << >>
  IN T(0) \o T(1) \o T(2)

RECURSIVE ParseTargets(_, _)
\* the loop over the three slots, from slot i on
ParseTargets(data, i) ==
  IF i >= 3 THEN << >>
  ELSE LET offset == i * 8
           x == from_bytes(SubSeq(data, offset + 1, offset + 2))
           y == from_bytes(SubSeq(data, offset + 3, offset + 4))
       IN (IF y # 0
           THEN << [id |-> i + 1, x_mm |-> x, y_mm |-> y, dist_mm |-> dist_mm(x, y)] >>
           ELSE << >>) \o ParseTargets(data, i + 1)

\* the bytes that must wait in the port before the reader reads
MinWaiting == 30

\* the length of the payload cut out behind the header
PayloadLen == 24

\* bytes.find: the first place of pat in data, counted from 1, or 0
Find(data, pat) ==
  LET hits == {k \in 1..(Len(data) - Len(pat) + 1) :
                 SubSeq(data, k, k + Len(pat) - 1) = pat}
  IN IF hits = {} THEN 0 ELSE CHOOSE k \in hits : \A j \in hits : k <= j

\* ser.read_until(expected) on the bytes waiting: the bytes through the first
\* expected, or, when the timeout ends the read, all of them
read_until(waiting, expected) ==
  LET k == Find(waiting, expected)
  IN IF k = 0 THEN waiting ELSE SubSeq(waiting, 1, k + Len(expected) - 1)

\* the payload the reader cuts out of the data it read: << payload >>, or
\* << >> when it hands nothing to the parser
ld2450_payload(data) ==
  LET k == Find(data, REPORT_HEADER) IN
  IF k = 0 THEN << >>
  ELSE LET start_idx == k + Len(REPORT_HEADER)
           payload == SubSeq(data, start_idx,
                             Min(start_idx + PayloadLen - 1, Len(data)))
       IN IF Len(payload) = PayloadLen THEN << payload >> ELSE << >>

\* one turn of the reader's loop on the bytes waiting in the port
ld2450_read(waiting) ==
  IF Len(waiting) >= MinWaiting
  THEN ld2450_payload(read_until(waiting, REPORT_TAIL))
  ELSE << >>

\* a frame as the radar sends it
FrameOf(payload) == REPORT_HEADER \o payload \o REPORT_TAIL

\* a frame the radar stopped sending after ten payload bytes
PartialFrame == REPORT_HEADER \o SubSeq(OneTargetFrame, 1, 10)

\* a payload whose first slot has x = 85 + 256 * 204: its first two bytes
\* are the bytes of REPORT_TAIL
TailInPayload == << 85, 204 >> \o SubSeq(OneTargetFrame, 3, PayloadLen)

\* the bytes the model lets wait in a port when the reader takes its turn
Buffers ==
  { FrameOf(EmptySlot \o EmptySlot \o EmptySlot),
    FrameOf(OneTargetFrame),
    PartialFrame,
    REPORT_HEADER \o OneTargetFrame \o << 85, 0 >>,
    REPORT_HEADER \o OneTargetFrame \o << 0, 0 >> \o REPORT_TAIL,
    [k \in 1..28 |-> 0] \o REPORT_TAIL,
    << 1, 2, 3 >> \o FrameOf(EmptySlot \o EmptySlot \o EmptySlot),
    PartialFrame \o FrameOf(OneTargetFrame),
    FrameOf(TailInPayload) }

\* the 24 bytes behind the first header when a partial frame stands before a
\* frame: the one payload the reader cuts out of Buffers that is not in Frames
CapturedPayload ==
  << 100, 0, 200, 0, 0, 0, 0, 0, 0, 0, 170, 255, 3, 0,
     100, 0, 200, 0, 0, 0, 0, 0, 0, 0 >>

\* a payload whose first slot has x and y bytes FF FF and zero further bytes
MinusOnePayload ==
  << 255, 255, 255, 255, 0, 0, 0, 0, 0, 0, 0, 0, 0, 0, 0, 0,
     0, 0, 0, 0, 0, 0, 0, 0 >>

\* the same x and y bytes in front of other further bytes
MinusOneReserved ==
  << 255, 255, 255, 255, 16, 0, 64, 1, 0, 0, 0, 0, 0, 0, 0, 0,
     0, 0, 0, 0, 0, 0, 0, 0 >>

\* the target lists of the payloads of the model, computed once
TargetsOf ==
  [data \in Frames \cup {CapturedPayload, MinusOnePayload, MinusOneReserved} |->
     ParseTargets(data, 0)]

\* a variant that writes the delayed state under the key "occupied"
JsonDumpsDelayed(d) ==
  << "occupied", d.occupied_delayed, "occupied_delayed", d.occupied_delayed,
     "target_count", d.target_count, "targets", d.targets >>

\* json.dumps of a sensor's data dictionary: the keys in insertion order
JsonDumps(d) ==
  << "occupied", d.occupied, "occupied_delayed", d.occupied_delayed,
     "target_count", d.target_count, "targets", d.targets >>

(***************************************************************************)
(* State                                                                   *)
(***************************************************************************)
VARIABLES
  BACKLIGHT,             \* feature flag [feature] backlight of the ini file
  LD2450_2,              \* feature flag [feature] ld2450_2: the second radar
  ld_sensors,            \* per sensor: occupied, occupied_delayed, timer, ...
  shell_cmd,             \* current command id or IDLE
  published_shell_cmd,
  backlight,             \* cached power state
  backlight_published,
  unpublished,           \* force-resync flag of the base client
  workers,               \* command lines running in worker threads
  LD2450,                \* feature flag [feature] ld2450: the first radar
  process,               \* "starting", "running" or "exited"
  config,                \* the [panels] items of the ini file, while starting
  panels,                \* the keys of topic_config["panel"]["panels"]
  reader,                \* per sensor: where its reader thread is
  port_ok,               \* per sensor: whether its serial port can be opened
  rcs,                   \* the result codes the transport gives in this run
  track,                 \* which histories are kept: watch, or the other three
  sinceOff,              \* history: time since a sensor's raw true -> false
  phase,                 \* history: where a sensor is in its occupancy episode
  out,                   \* history: the intents and log lines of the last step
  watch,                 \* history: a topic and the calls of the last ticks for it
  rd,                    \* per sensor: where its reader is in _parse_ld2450
  sc,                    \* per caller: where it is in _set_shell_cmd
  timers,                \* per sensor: its threading.Timer objects
  issued                 \* history: the last intent a reader issued

vars == << BACKLIGHT, LD2450_2, ld_sensors, shell_cmd, published_shell_cmd,
           backlight, backlight_published, unpublished, workers,
           LD2450, process, config, panels, reader, port_ok,
           rcs, track, sinceOff, phase, out, watch,
           rd, sc, timers, issued >>

\* the positions of the threads inside the handlers
threadVars == << rd, sc, timers, issued >>

\* the feature flag of the first radar and what start-up sets
startVars == << LD2450, process, config, panels, reader, port_ok >>

Topics == {"backlight", "shell", "ld2450", "ld2450_2"}

\* the topics of topic_config in this run
Registered == IF LD2450_2 THEN Topics ELSE Topics \ {"ld2450_2"}

LdTopic(sensor_id) == IF sensor_id = 1 THEN "ld2450" ELSE "ld2450_2"

\* the attributes the shell and backlight handlers work on
Sh == [ shell_cmd |-> shell_cmd, published_shell_cmd |-> published_shell_cmd,
        backlight |-> backlight, backlight_published |-> backlight_published,
        workers |-> workers ]

Pub(topic, payload, rc) == [topic |-> topic, payload |-> payload, rc |-> rc]

\* the calls among pubs that went to topic
CallsFor(pubs, topic) ==
  LET OnTopic(p) == p.topic = topic IN SelectSeq(pubs, OnTopic)

\* the result codes the transport may give for topic: a choice only when the
\* step calls publish for it
RcFor(pubs, topic) == IF CallsFor(pubs, topic) # << >> THEN rcs ELSE {0}

InitSensor ==
  [ occupied |-> FALSE, occupied_delayed |-> FALSE, timer |-> << >>,
    last_count |-> -1, pub_data |-> NoData,
    data |-> [ occupied |-> FALSE, occupied_delayed |-> FALSE,
               target_count |-> 0, targets |-> << >> ] ]

\* the threads that call _set_shell_cmd: the reader of sensor 1, the reader
\* of sensor 2 and, as 0, the bus client's dispatch thread
Callers == Sensors \cup {0}

\* the Timer objects of one sensor the model keeps apart
MaxTimers == 2

\* a reader outside _parse_ld2450
RdIdle == [pc |-> "idle", data |-> << >>, significant_change |-> FALSE,
           cmd |-> "", payload |-> << >>]

\* a thread outside _set_shell_cmd
ScOut == [pc |-> "out", msg |-> ""]

\* no Timer object
TmFree == [st |-> "free", superseded |-> FALSE, payload |-> << >>]

\* the attributes after __init__
InitClient ==
  /\ BACKLIGHT \in BOOLEAN
  /\ ld_sensors = [i \in Sensors |-> InitSensor]
  /\ shell_cmd = IDLE
  /\ published_shell_cmd = None
  /\ backlight = None
  /\ backlight_published = None
  /\ unpublished = TRUE
  /\ workers = << >>
  /\ sinceOff = [i \in Sensors |-> << >>]
  /\ phase = [i \in Sensors |-> "none"]
  /\ out = [intents |-> << >>, log |-> << >>]
  /\ watch = << >>
  /\ rd = [i \in Sensors |-> RdIdle]
  /\ sc = [c \in Callers |-> ScOut]
  /\ timers = [i \in Sensors |-> [k \in 1..MaxTimers |-> TmFree]]
  /\ issued = ""

\* after a start-up with every enabled radar's port open
Started ==
  /\ LD2450 = TRUE
  /\ process = "running"
  /\ config = << >>
  /\ panels = InitPanels
  /\ reader = [i \in Sensors |-> IF i = 1 \/ LD2450_2 THEN "running" ELSE "off"]
  /\ port_ok = [i \in Sensors |-> TRUE]

\* both radars enabled, the transport accepts every publish
Init == InitClient /\ LD2450_2 = TRUE /\ rcs = {0} /\ track = FALSE /\ Started

\* the first radar alone, the transport may refuse a publish, the calls of a
\* publish tick recorded
InitTick == InitClient /\ LD2450_2 = FALSE /\ rcs = RC /\ track = TRUE /\ Started

(***************************************************************************)
(* Publish handlers.  Each takes the transport's result code rc of the     *)
(* publish call it may make and returns the new attributes and the calls.  *)
(***************************************************************************)
publish_backlight(sh, force_value, rc) ==
  IF BACKLIGHT = FALSE THEN [sh |-> sh, pubs |-> << >>]
  ELSE LET value == IF force_value # None THEN Upper(force_value) ELSE None IN
       IF value = None \/ value = "" THEN [sh |-> sh, pubs |-> << >>]
       ELSE IF sh.backlight_published # value \/ unpublished = TRUE
            THEN [ sh |-> IF rc = 0
                          THEN [sh EXCEPT !.backlight = value,
                                          !.backlight_published = value]
                          ELSE sh,
                   pubs |-> << Pub("backlight", value, rc) >> ]
            ELSE [sh |-> sh, pubs |-> << >>]

\* a variant of the shell publish handler that never calls publish
publish_shell_cmd_never(sh, rc) == [sh |-> sh, pubs |-> << >>]

\* a variant that never advances published_shell_cmd
publish_shell_cmd_forget(sh, rc) ==
  IF sh.shell_cmd # sh.published_shell_cmd \/ unpublished = TRUE
  THEN [ sh |-> sh, pubs |-> << Pub("shell", Capitalize(sh.shell_cmd), rc) >> ]
  ELSE [sh |-> sh, pubs |-> << >>]

publish_shell_cmd(sh, rc) ==
  IF sh.shell_cmd # sh.published_shell_cmd \/ unpublished = TRUE
  THEN [ sh |-> IF rc = 0
                THEN [sh EXCEPT !.published_shell_cmd = sh.shell_cmd]
                ELSE sh,
         pubs |-> << Pub("shell", Capitalize(sh.shell_cmd), rc) >> ]
  ELSE [sh |-> sh, pubs |-> << >>]

\* a variant of the sensor's publish handler that never calls publish
publish_ld2450_never(s, topic, rc) == [s |-> s, pubs |-> << >>]

publish_ld2450(s, topic, rc) ==
  LET payload == JsonDumps(s.data) IN
  IF payload # s.pub_data
  THEN [ s |-> IF rc = 0 THEN [s EXCEPT !.pub_data = payload] ELSE s,
         pubs |-> << Pub(topic, payload, rc) >> ]
  ELSE [s |-> s, pubs |-> << >>]

(***************************************************************************)
(* _set_shell_cmd: the single-flight command executor                      *)
(***************************************************************************)
\* a variant of the accepted request without the backlight sync
run_shell_cmd_no_sync(sh, msg, rcB, rcS) ==
  LET p == publish_shell_cmd([sh EXCEPT !.shell_cmd = msg], rcS)
  IN [ sh |-> [p.sh EXCEPT !.workers = Append(@, commands[msg])],
       pubs |-> p.pubs,
       log |-> << >> ]

\* the accepted request: backlight sync, command id, publish, worker thread
run_shell_cmd(sh, msg, rcB, rcS) ==
  LET target_state == IF msg = "DISPLAYEIN" THEN "ON"
                      ELSE IF msg = "DISPLAYAUS" THEN "OFF" ELSE None
      b == IF BACKLIGHT /\ target_state # None
           THEN publish_backlight([sh EXCEPT !.backlight = target_state],
                                  target_state, rcB)
           ELSE [sh |-> sh, pubs |-> << >>]
      p == publish_shell_cmd([b.sh EXCEPT !.shell_cmd = msg], rcS)
  IN [ sh |-> [p.sh EXCEPT !.workers = Append(@, commands[msg])],
       pubs |-> b.pubs \o p.pubs,
       log |-> << >> ]

\* a variant without the check of the current command id
set_shell_cmd_unguarded(sh, payload, rcB, rcS) ==
  LET msg == StripUpper(payload) IN
  IF msg \in DOMAIN commands
  THEN run_shell_cmd(sh, msg, rcB, rcS)
  ELSE [sh |-> sh, pubs |-> << >>, log |-> << "Unknown command payload received" >>]

set_shell_cmd(sh, payload, rcB, rcS) ==
  LET msg == StripUpper(payload) IN
  IF msg \in DOMAIN commands
  THEN IF sh.shell_cmd # IDLE
       THEN [sh |-> sh, pubs |-> << >>,
             log |-> << "Shell command already running skip" >>]
       ELSE run_shell_cmd(sh, msg, rcB, rcS)
  ELSE [sh |-> sh, pubs |-> << >>, log |-> << "Unknown command payload received" >>]

(***************************************************************************)
(* thread_shell_cmd_func: the external command of worker k ends with exit  *)
(* status err                                                              *)
(***************************************************************************)
\* a variant that leaves the command id in place when the command failed
thread_shell_cmd_func_keep(sh, k, err) ==
  LET done == [sh EXCEPT !.workers = SubSeq(@, 1, k - 1) \o SubSeq(@, k + 1, Len(@))]
  IN IF err # 0
     THEN [sh |-> done, log |-> << "Error executing command" >>]
     ELSE [sh |-> [done EXCEPT !.shell_cmd = IDLE], log |-> << >>]

thread_shell_cmd_func(sh, k, err) ==
  LET done == [sh EXCEPT !.workers = SubSeq(@, 1, k - 1) \o SubSeq(@, k + 1, Len(@))]
  IN IF err # 0
     THEN [sh |-> [done EXCEPT !.shell_cmd = IDLE],
           log |-> << "Error executing command" >>]
     ELSE [sh |-> [done EXCEPT !.shell_cmd = IDLE], log |-> << >>]

(***************************************************************************)
(* _parse_ld2450: one decoded 24-byte payload of sensor sensor_id          *)
(***************************************************************************)
\* a variant that looks at the first sensor alone
display_control_first(sensors) ==
  IF sensors[1].occupied THEN "displayein" ELSE "displayaus"

\* a variant that always switches the display on
display_control_on(sensors) == "displayein"

\* DISPLAY CONTROL (GLOBAL RAW LOGIC): the command for the sensors' raw states
display_control(sensors) ==
  LET any_raw_occupied == \E j \in Sensors : sensors[j].occupied IN
  IF any_raw_occupied THEN "displayein" ELSE "displayaus"

\* a variant that leaves a running timer alone when the raw state turns true
delayed_logic_keep_timer(s, new_raw_state) ==
  IF new_raw_state
  THEN [s EXCEPT !.occupied_delayed = TRUE]
  ELSE [s EXCEPT !.timer = << off_delay >>]

\* a variant that drops the debounced state with the raw state
delayed_logic_drop(s, new_raw_state) ==
  IF new_raw_state
  THEN [s EXCEPT !.timer = << >>, !.occupied_delayed = TRUE]
  ELSE [s EXCEPT !.timer = << off_delay >>, !.occupied_delayed = FALSE]

\* a variant that leaves occupied_delayed to the timer alone
delayed_logic_lazy(s, new_raw_state) ==
  IF new_raw_state
  THEN [s EXCEPT !.timer = << >>]
  ELSE [s EXCEPT !.timer = << off_delay >>]

\* DELAYED LOGIC (PER SENSOR), at a change of the raw state: a timer is
\* << >> when None, << remaining seconds >> when started and not cancelled
delayed_logic(s, new_raw_state) ==
  IF new_raw_state
  THEN [s EXCEPT !.timer = << >>, !.occupied_delayed = TRUE]
  ELSE [s EXCEPT !.timer = << off_delay >>]

parse_ld2450(sensors, sh, sensor_id, data, rcB, rcS, rcR) ==
  LET s == sensors[sensor_id]
      targets == TargetsOf[data]
      new_count == Len(targets)
      new_raw_state == new_count > 0
      raw_change == new_raw_state # s.occupied
      s1 == IF raw_change THEN [s EXCEPT !.occupied = new_raw_state] ELSE s
      cmd == display_control([sensors EXCEPT ![sensor_id] = s1])
      r == IF raw_change THEN set_shell_cmd(sh, cmd, rcB, rcS)
           ELSE [sh |-> sh, pubs |-> << >>, log |-> << >>]
      s2 == IF raw_change THEN delayed_logic(s1, new_raw_state) ELSE s1
      significant_change ==
        \/ new_count # s.last_count
        \/ raw_change
      s3 == [s2 EXCEPT !.data = [ occupied |-> s2.occupied,
                                  occupied_delayed |-> s2.occupied_delayed,
                                  target_count |-> new_count,
                                  targets |-> targets ]]
      p == IF significant_change
           THEN publish_ld2450([s3 EXCEPT !.last_count = new_count],
                               LdTopic(sensor_id), rcR)
           ELSE [s |-> s3, pubs |-> << >>]
  IN [ sensors |-> [sensors EXCEPT ![sensor_id] = p.s],
       sh |-> r.sh,
       intents |-> IF raw_change THEN << cmd >> ELSE << >>,
       pubs |-> r.pubs \o p.pubs,
       log |-> r.log,
       significant_change |-> significant_change ]

(***************************************************************************)
(* _delayed_off: the callback of a sensor's off-delay timer                *)
(***************************************************************************)
delayed_off(s, sensor_id, rc) ==
  LET p == publish_ld2450([s EXCEPT !.occupied_delayed = FALSE, !.timer = << >>],
                          LdTopic(sensor_id), rc)
  IN [ s |-> p.s, pubs |-> p.pubs, log |-> << "delayed occupancy OFF" >> ]

(***************************************************************************)
(* One round of the base client's publish loop: the publish handler of     *)
(* every entry of topic_config, in the order of registration               *)
(***************************************************************************)
publish_tick(sensors, sh, rcS, rc1, rc2) ==
  LET b == publish_backlight(sh, None, 0)
      p == publish_shell_cmd(b.sh, rcS)
      r1 == publish_ld2450(sensors[1], LdTopic(1), rc1)
      r2 == IF LD2450_2 THEN publish_ld2450(sensors[2], LdTopic(2), rc2)
            ELSE [s |-> sensors[2], pubs |-> << >>]
  IN [ sensors |-> [i \in Sensors |-> IF i = 1 THEN r1.s ELSE r2.s],
       sh |-> p.sh,
       pubs |-> b.pubs \o p.pubs \o r1.pubs \o r2.pubs ]

(***************************************************************************)
(* History                                                                 *)
(***************************************************************************)
\* the value a topic reports
ChannelValue(topic) ==
  CASE topic = "backlight" -> << backlight >>
    [] topic = "shell" -> << shell_cmd >>
    [] topic = "ld2450" -> << ld_sensors[1].data >>
    [] topic = "ld2450_2" -> << ld_sensors[2].data >>

\* the value a topic reports after the step
ChannelValueNext(topic) ==
  CASE topic = "backlight" -> << backlight' >>
    [] topic = "shell" -> << shell_cmd' >>
    [] topic = "ld2450" -> << ld_sensors'[1].data >>
    [] topic = "ld2450_2" -> << ld_sensors'[2].data >>

\* after a step that made the calls pubs; isTick: the step is a publish tick.
\* watch keeps, for one topic, the calls of a tick that was not a forced
\* resync and then those of the tick after it, as long as the value of the
\* topic does not change and no resync is forced
Record(pubs, isTick) ==
  IF ~track THEN watch' = << >>
  ELSE IF isTick
       THEN IF unpublished THEN watch' = << >>
            ELSE \/ \E ch \in Registered : watch' = << ch, CallsFor(pubs, ch) >>
                 \/ /\ Len(watch) = 2
                    /\ watch' = Append(watch, CallsFor(pubs, watch[1]))
       ELSE IF watch # << >> /\ ChannelValueNext(watch[1]) # ChannelValue(watch[1])
            THEN watch' = << >>
            ELSE watch' = watch

\* the intents handed to the command executor and the lines logged by the step
Output(intents, log) ==
  out' = IF track THEN out ELSE [intents |-> intents, log |-> log]

\* a sensor's episode: "true1" raw true, "off" raw false with the off-delay
\* running, "true2" raw true again before the delay ran out, "expired" the
\* delay ran out and _delayed_off was called
PhaseAfterParse(ph, was, now) ==
  IF ~was /\ now THEN IF ph = "off" THEN "true2" ELSE "true1"
  ELSE IF was /\ ~now THEN "off"
  ELSE ph

(***************************************************************************)
(* Start-up: the [panels] section of the ini file and the reader threads   *)
(***************************************************************************)
\* the panels a configuration may define at most
MaxPanels == 2

\* the keys the ini parser may hand over: a parser that lower-cases the
\* option names gives "default", one that keeps them gives "DEFAULT"
PanelKeys == {"kitchen", "default", "DEFAULT"}

\* an item of the section: its key and whether validators.url takes its URL
PanelItems == [key : PanelKeys, url_ok : BOOLEAN]

\* the sections of at most MaxPanels items, each key once
Configs ==
  {c \in UNION {[1..n -> PanelItems] : n \in 0..MaxPanels} :
     \A a, b \in DOMAIN c : a # b => c[a].key # c[b].key}

RECURSIVE read_panels(_, _)
\* the loop over the items of [panels]: the keys stored so far in acc
read_panels(items, acc) ==
  IF items = << >> THEN [exit |-> FALSE, panels |-> acc]
  ELSE LET key == Head(items).key IN
       IF key \in reserved_panel_names THEN [exit |-> TRUE, panels |-> acc]
       ELSE IF Head(items).url_ok
            THEN read_panels(Tail(items), acc \cup {Upper(key)})
            ELSE [exit |-> TRUE, panels |-> acc]

\* the reader threads read_client_config starts
StartedReaders(ld, ld2) ==
  [i \in Sensors |-> IF (i = 1 /\ ld) \/ (i = 2 /\ ld2) THEN "starting" ELSE "off"]

\* a variant of the reader's start that goes on without the port
ld2450_open_anyway(ok) == [reader |-> "running", log |-> << >>]

\* the reader thread opens its port: an exception ends the thread
ld2450_open(ok) ==
  IF ok THEN [reader |-> "running", log |-> << >>]
  ELSE [reader |-> "crashed", log |-> << "Thread Crash" >>]

\* texts that reach a radar's set topic from the bus
Directives == {"version", " query ", "BAUD 115200", "baud x", "FOO", "  "}

\* str(msg).upper().strip() on the texts that occur
UpperStrip(msg) ==
  CASE msg = "version" -> "VERSION"
    [] msg = " query " -> "QUERY"
    [] msg = "baud x" -> "BAUD X"
    [] msg = "  " -> ""
    [] OTHER -> msg

\* the directives the handler knows
Recognised == {"VERSION", "REBOOT", "SINGLE", "MULTI", "QUERY", "BAUD 115200",
               "FACTORY_RESET", "BT_ON", "BT_OFF"}

\* _set_ld2450_command: the lines logged and the exchanges with the radar;
\* enabled: the feature flag, open_ok: the port opens, conf_ok: the radar
\* enters configuration mode, op_ok: the directive's exchange ends without
\* an exception
set_ld2450_command(enabled, msg, open_ok, conf_ok, op_ok) ==
  LET cmd_text == UpperStrip(msg) IN
  IF ~enabled \/ cmd_text = "" THEN [log |-> << >>, radar |-> << >>]
  ELSE IF ~open_ok THEN [log |-> << "LD2450 error" >>, radar |-> << >>]
  ELSE IF ~conf_ok
       THEN [log |-> << "LD2450 command", "failed to enter config mode" >>,
             radar |-> << "enable_configuration_mode" >>]
  ELSE LET op ==
             CASE cmd_text = "VERSION" ->
                    [radar |-> << "read_firmware_version" >>, log |-> << "firmware" >>]
               [] cmd_text = "QUERY" ->
                    [radar |-> << "query_target_tracking" >>, log |-> << "tracking mode" >>]
               [] cmd_text = "BAUD 115200" ->
                    [radar |-> << "set_serial_port_baud_rate" >>, log |-> << >>]
               [] cmd_text = "BAUD X" ->
                    [radar |-> << >>, log |-> << "Invalid BAUD command format" >>]
               [] OTHER ->
                    [radar |-> << >>, log |-> << "Unknown LD2450 command" >>]
       IN IF op.radar # << >> /\ ~op_ok
          THEN [log |-> << "LD2450 command", "LD2450 error" >>,
                radar |-> << "enable_configuration_mode" >> \o op.radar]
          ELSE [log |-> << "LD2450 command" >> \o op.log,
                radar |-> << "enable_configuration_mode" >> \o op.radar
                          \o << "end_configuration_mode" >>]

(***************************************************************************)
(* Actions                                                                 *)
(***************************************************************************)
SetSh(sh) ==
  /\ shell_cmd' = sh.shell_cmd
  /\ published_shell_cmd' = sh.published_shell_cmd
  /\ backlight' = sh.backlight
  /\ backlight_published' = sh.backlight_published
  /\ workers' = sh.workers

\* the reader thread of a sensor hands a payload to _parse_ld2450
ParseLd2450(sensor_id, data) ==
  /\ sensor_id = 2 => LD2450_2
  /\ LET calls == parse_ld2450(ld_sensors, Sh, sensor_id, data, 0, 0, 0).pubs IN
     \E rcB \in RcFor(calls, "backlight"), rcS \in RcFor(calls, "shell"),
        rcR \in RcFor(calls, LdTopic(sensor_id)) :
       LET r == parse_ld2450(ld_sensors, Sh, sensor_id, data, rcB, rcS, rcR)
           was == ld_sensors[sensor_id].occupied
           now == r.sensors[sensor_id].occupied
       IN /\ ld_sensors' = r.sensors
          /\ SetSh(r.sh)
          /\ IF track THEN UNCHANGED << sinceOff, phase >>
             ELSE /\ sinceOff' = [sinceOff EXCEPT ![sensor_id] =
                                    IF was /\ ~now THEN << 0 >>
                                    ELSE IF now THEN << >> ELSE @]
                  /\ phase' = [phase EXCEPT ![sensor_id] =
                                 PhaseAfterParse(@, was, now)]
          /\ UNCHANGED << BACKLIGHT, LD2450_2, rcs, unpublished, track >>
          /\ Output(r.intents, r.log)
          /\ Record(r.pubs, FALSE)
          /\ UNCHANGED startVars
          /\ UNCHANGED threadVars

\* time passes: every running timer comes ClockStep seconds closer to expiry
Clock ==
  /\ \E i \in Sensors : ld_sensors[i].timer # << >> /\ ld_sensors[i].timer[1] > 0
  /\ ld_sensors' = [i \in Sensors |->
       IF ld_sensors[i].timer # << >>
       THEN [ld_sensors[i] EXCEPT !.timer = << Max(0, @[1] - ClockStep) >>]
       ELSE ld_sensors[i]]
  /\ sinceOff' = [i \in Sensors |->
       IF sinceOff[i] # << >>
       THEN << Min(off_delay, sinceOff[i][1] + ClockStep) >>
       ELSE sinceOff[i]]
  /\ UNCHANGED << BACKLIGHT, LD2450_2, rcs, shell_cmd, published_shell_cmd, backlight,
                  backlight_published, unpublished, workers, track, phase >>
  /\ Output(<< >>, << >>)
  /\ Record(<< >>, FALSE)
  /\ UNCHANGED startVars
  /\ UNCHANGED threadVars

\* a sensor's timer expires, not cancelled, and calls _delayed_off
DelayedOff(sensor_id) ==
  /\ ld_sensors[sensor_id].timer = << 0 >>
  /\ \E rc \in RcFor(delayed_off(ld_sensors[sensor_id], sensor_id, 0).pubs,
                      LdTopic(sensor_id)) :
       LET r == delayed_off(ld_sensors[sensor_id], sensor_id, rc) IN
       /\ ld_sensors' = [ld_sensors EXCEPT ![sensor_id] = r.s]
       /\ phase' = IF ~track /\ phase[sensor_id] = "off"
                   THEN [phase EXCEPT ![sensor_id] = "expired"]
                   ELSE phase
       /\ UNCHANGED << BACKLIGHT, LD2450_2, rcs, shell_cmd, published_shell_cmd,
                       backlight, backlight_published, unpublished, workers,
                       sinceOff, track >>
       /\ Output(<< >>, r.log)
       /\ Record(r.pubs, FALSE)
       /\ UNCHANGED startVars
       /\ UNCHANGED threadVars

\* a message on the shell topic is dispatched to _set_shell_cmd
SetShellCmd(payload) ==
  LET calls == set_shell_cmd(Sh, payload, 0, 0).pubs IN
  \E rcB \in RcFor(calls, "backlight"), rcS \in RcFor(calls, "shell") :
    LET r == set_shell_cmd(Sh, payload, rcB, rcS) IN
    /\ SetSh(r.sh)
    /\ UNCHANGED << BACKLIGHT, LD2450_2, rcs, ld_sensors, unpublished, sinceOff,
                    phase, track >>
    /\ Output(<< >>, r.log)
    /\ Record(r.pubs, FALSE)
    /\ UNCHANGED startVars
    /\ UNCHANGED threadVars

\* a worker thread's command has ended
ThreadShellCmdFunc(k, err) ==
  /\ k \in 1..Len(workers)
  /\ LET r == thread_shell_cmd_func(Sh, k, err) IN
     /\ SetSh(r.sh)
     /\ Output(<< >>, r.log)
  /\ UNCHANGED << BACKLIGHT, LD2450_2, rcs, ld_sensors, unpublished, sinceOff,
                  phase, track >>
  /\ Record(<< >>, FALSE)
  /\ UNCHANGED startVars
  /\ UNCHANGED threadVars

\* the base client's on_connect: everything is to be published again
Connect ==
  /\ unpublished' = TRUE
  /\ UNCHANGED << BACKLIGHT, LD2450_2, rcs, ld_sensors, shell_cmd, published_shell_cmd,
                  backlight, backlight_published, workers, sinceOff, phase, track >>
  /\ Output(<< >>, << >>)
  /\ Record(<< >>, FALSE)
  /\ UNCHANGED startVars
  /\ UNCHANGED threadVars

\* the publish loop runs one round and clears the force-resync flag
PublishTick ==
  LET calls == publish_tick(ld_sensors, Sh, 0, 0, 0).pubs IN
  \E rcS \in RcFor(calls, "shell"), rc1 \in RcFor(calls, LdTopic(1)),
     rc2 \in RcFor(calls, LdTopic(2)) :
    LET r == publish_tick(ld_sensors, Sh, rcS, rc1, rc2) IN
    /\ SetSh(r.sh)
    /\ ld_sensors' = r.sensors
    /\ unpublished' = FALSE
    /\ UNCHANGED << BACKLIGHT, LD2450_2, rcs, sinceOff, phase, track >>
    /\ Output(<< >>, << >>)
    /\ Record(r.pubs, TRUE)
    /\ UNCHANGED startVars
    /\ UNCHANGED threadVars

\* the attributes of the client that a step on the serial ports leaves alone
clientVars == << BACKLIGHT, LD2450_2, ld_sensors, shell_cmd, published_shell_cmd,
                 backlight, backlight_published, unpublished, workers,
                 rcs, track, sinceOff, phase >>

\* the constructor: read_client_config ends the process on a bad [panels]
\* section, else it starts the reader threads and __init__ enters its panels
StartUp ==
  /\ process = "starting"
  /\ LET r == read_panels(config, {}) IN
     IF r.exit
     THEN /\ process' = "exited"
          /\ UNCHANGED << panels, reader >>
     ELSE /\ process' = "running"
          /\ panels' = r.panels \cup InitPanels
          /\ reader' = StartedReaders(LD2450, LD2450_2)
  /\ UNCHANGED << LD2450, config, port_ok, out, watch >>
  /\ UNCHANGED clientVars
  /\ UNCHANGED threadVars

\* a reader thread opens its serial port
Ld2450Open(sensor_id) ==
  /\ process = "running"
  /\ reader[sensor_id] = "starting"
  /\ LET r == ld2450_open(port_ok[sensor_id]) IN
     /\ reader' = [reader EXCEPT ![sensor_id] = r.reader]
     /\ Output(<< >>, r.log)
  /\ Record(<< >>, FALSE)
  /\ UNCHANGED << LD2450, process, config, panels, port_ok >>
  /\ UNCHANGED clientVars
  /\ UNCHANGED threadVars

\* one turn of a reader's loop with the bytes waiting in its port
Ld2450ReadThread(sensor_id, waiting) ==
  /\ process = "running"
  /\ reader[sensor_id] = "running"
  /\ LET f == ld2450_read(waiting) IN
     IF f # << >> THEN ParseLd2450(sensor_id, f[1])
     ELSE /\ Output(<< >>, << >>)
          /\ Record(<< >>, FALSE)
          /\ UNCHANGED startVars
          /\ UNCHANGED threadVars
          /\ UNCHANGED clientVars

\* a text arrives on the set topic of a radar
SetLd2450Command(sensor_id, msg, open_ok, conf_ok, op_ok) ==
  /\ process = "running"
  /\ sensor_id = 2 => LD2450_2
  /\ Output(<< >>, set_ld2450_command(LD2450, msg, open_ok, conf_ok, op_ok).log)
  /\ Record(<< >>, FALSE)
  /\ UNCHANGED startVars
  /\ UNCHANGED threadVars
  /\ UNCHANGED clientVars

Next ==
  \/ \E i \in Sensors, data \in Frames : ParseLd2450(i, data)
  \/ Clock
  \/ \E i \in Sensors : DelayedOff(i)
  \/ \E payload \in ShellPayloads : SetShellCmd(payload)
  \/ \E k \in 1..Len(workers), err \in RC : ThreadShellCmdFunc(k, err)
  \/ Connect
  \/ PublishTick

Spec == Init /\ [][Next]_vars

SpecTick == InitTick /\ [][Next]_vars

\* the radars alone drive the executor: no command arrives from the bus
NextFrames ==
  \/ \E i \in Sensors, data \in Frames : ParseLd2450(i, data)
  \/ Clock
  \/ \E i \in Sensors : DelayedOff(i)
  \/ \E k \in 1..Len(workers), err \in RC : ThreadShellCmdFunc(k, err)
  \/ Connect
  \/ PublishTick

SpecFrames == Init /\ [][NextFrames]_vars

\* the first radar alone, no backlight feature, the transport takes every
\* publish
InitLive ==
  /\ InitClient /\ BACKLIGHT = FALSE
  /\ LD2450_2 = FALSE /\ rcs = {0} /\ track = FALSE
  /\ Started

\* a started Timer runs out after off_delay and calls its function, and the
\* base client's loop keeps calling the publish handlers; frames, commands
\* and reconnects come as the environment sends them
SpecLive ==
  /\ InitLive /\ [][Next]_vars
  /\ WF_vars(Clock)
  /\ \A i \in Sensors : WF_vars(DelayedOff(i))
  /\ WF_vars(PublishTick)

\* the process right after a start-up that went through: the reader threads
\* started, their ports not yet opened, each port there or not
InitStart ==
  /\ InitClient /\ BACKLIGHT = FALSE
  /\ LD2450_2 = TRUE /\ rcs = {0} /\ track = FALSE
  /\ LD2450 \in BOOLEAN
  /\ process = "running"
  /\ config = << >>
  /\ panels = InitPanels
  /\ reader = StartedReaders(LD2450, LD2450_2)
  /\ port_ok \in [Sensors -> BOOLEAN]

NextStart ==
  \/ \E i \in Sensors : Ld2450Open(i)
  \/ \E i \in Sensors, w \in Buffers : Ld2450ReadThread(i, w)
  \/ Clock
  \/ \E i \in Sensors : DelayedOff(i)
  \/ \E payload \in ShellPayloads : SetShellCmd(payload)
  \/ \E k \in 1..Len(workers), err \in RC : ThreadShellCmdFunc(k, err)
  \/ Connect
  \/ PublishTick

SpecStart == InitStart /\ [][NextStart]_vars

\* the command handlers alone: no frame arrives, each radar and the power
\* sync switched on or off
InitCmd ==
  /\ InitClient
  /\ LD2450_2 \in BOOLEAN /\ rcs = {0} /\ track = FALSE
  /\ LD2450 \in BOOLEAN
  /\ process = "running"
  /\ config = << >>
  /\ panels = InitPanels
  /\ reader = [i \in Sensors |->
                 IF (i = 1 /\ LD2450) \/ (i = 2 /\ LD2450_2) THEN "running" ELSE "off"]
  /\ port_ok = [i \in Sensors |-> TRUE]

NextCmd ==
  \/ \E i \in Sensors, msg \in Directives, open_ok \in BOOLEAN, conf_ok \in BOOLEAN,
        op_ok \in BOOLEAN :
       SetLd2450Command(i, msg, open_ok, conf_ok, op_ok)
  \/ \E payload \in ShellPayloads : SetShellCmd(payload)
  \/ \E k \in 1..Len(workers), err \in RC : ThreadShellCmdFunc(k, err)
  \/ Connect
  \/ PublishTick

SpecCmd == InitCmd /\ [][NextCmd]_vars

\* the process before the constructor has read the [panels] section
InitConfig ==
  /\ InitClient
  /\ LD2450_2 \in BOOLEAN /\ rcs = {0} /\ track = FALSE
  /\ LD2450 \in BOOLEAN
  /\ process = "starting"
  /\ config \in Configs
  /\ panels = {}
  /\ reader = [i \in Sensors |-> "off"]
  /\ port_ok = [i \in Sensors |-> TRUE]

NextConfig == StartUp

SpecConfig == InitConfig /\ [][NextConfig]_vars

(***************************************************************************)
(* The handlers step by step.  The reader threads, the Timer threads, the  *)
(* bus client's dispatch thread and the worker threads run concurrently;   *)
(* no handler acquires a lock (mqtt_lock is created and never used), so a  *)
(* thread may be anywhere in a handler while another one takes a step.     *)
(* Here a sensor's timer field holds << k >> for its Timer object k.       *)
(***************************************************************************)
\* the command threads the model lets run at a time
MaxWorkers == 2

\* the payloads the radars send in these runs
RaceFrames == { EmptySlot \o EmptySlot \o EmptySlot, OneTargetFrame }

\* what no step of a handler writes
raceFixed == << BACKLIGHT, LD2450_2, unpublished, rcs, track,
                sinceOff, phase, out, watch >>

\* Timer.cancel() on the object handle names: a timer still waiting never
\* calls its function, one that has left its wait is not stopped
Cancel(tm, handle) ==
  IF handle = << >> THEN tm
  ELSE [tm EXCEPT ![handle[1]] = IF @.st = "waiting" THEN TmFree ELSE @]

\* history: a raw true event was processed while these timers existed
Supersede(tm) ==
  [k \in 1..MaxTimers |->
     IF tm[k].st # "free" THEN [tm[k] EXCEPT !.superseded = TRUE] ELSE tm[k]]

\* lines 575-606: the targets are decoded, the count is compared and a
\* changed raw state is stored
RdFrame(sensor_id, data) ==
  /\ reader[sensor_id] = "running"
  /\ rd[sensor_id].pc = "idle"
  /\ LET s == ld_sensors[sensor_id]
         new_count == Len(TargetsOf[data])
         new_raw_state == new_count > 0
     IN IF new_raw_state # s.occupied
        THEN /\ ld_sensors' = [ld_sensors EXCEPT ![sensor_id].occupied = new_raw_state]
             /\ rd' = [rd EXCEPT ![sensor_id] =
                         [RdIdle EXCEPT !.pc = "any", !.data = data,
                                        !.significant_change = TRUE]]
        ELSE /\ rd' = [rd EXCEPT ![sensor_id] =
                         [RdIdle EXCEPT !.pc = "data", !.data = data,
                                        !.significant_change = new_count # s.last_count]]
             /\ UNCHANGED ld_sensors
  /\ UNCHANGED << sc, timers, issued, shell_cmd, published_shell_cmd, backlight,
                  backlight_published, workers >>
  /\ UNCHANGED raceFixed
  /\ UNCHANGED startVars

\* lines 609-613: the display command from the raw states of all sensors
RdAny(sensor_id) ==
  /\ rd[sensor_id].pc = "any"
  /\ rd' = [rd EXCEPT ![sensor_id].pc = "call",
                      ![sensor_id].cmd = display_control(ld_sensors)]
  /\ UNCHANGED << ld_sensors, sc, timers, issued, shell_cmd, published_shell_cmd,
                  backlight, backlight_published, workers >>
  /\ UNCHANGED raceFixed
  /\ UNCHANGED startVars

\* lines 614 and 841-846: the reader calls _set_shell_cmd, which returns at
\* once when a command is running
RdCall(sensor_id) ==
  /\ rd[sensor_id].pc = "call"
  /\ issued' = rd[sensor_id].cmd
  /\ LET msg == StripUpper(rd[sensor_id].cmd) IN
     IF msg \in DOMAIN commands /\ shell_cmd = IDLE
     THEN /\ sc' = [sc EXCEPT ![sensor_id] = [pc |-> "run", msg |-> msg]]
          /\ rd' = [rd EXCEPT ![sensor_id].pc = "shell"]
     ELSE /\ rd' = [rd EXCEPT ![sensor_id].pc = "delayed"]
          /\ UNCHANGED sc
  /\ UNCHANGED << ld_sensors, timers, shell_cmd, published_shell_cmd,
                  backlight, backlight_published, workers >>
  /\ UNCHANGED raceFixed
  /\ UNCHANGED startVars

\* lines 841-846 in the dispatch thread: a known command arrives on the
\* shell topic while no command is running
ScCall(payload) ==
  /\ sc[0].pc = "out"
  /\ StripUpper(payload) \in DOMAIN commands
  /\ shell_cmd = IDLE
  /\ sc' = [sc EXCEPT ![0] = [pc |-> "run", msg |-> StripUpper(payload)]]
  /\ UNCHANGED << ld_sensors, rd, timers, issued, shell_cmd, published_shell_cmd,
                  backlight, backlight_published, workers >>
  /\ UNCHANGED raceFixed
  /\ UNCHANGED startVars

\* lines 848-870 and 1056-1057, without the backlight feature: the command
\* is stored and _publish_shell_cmd enters client.publish
ScRun(c) ==
  /\ sc[c].pc = "run"
  /\ BACKLIGHT = FALSE
  /\ shell_cmd' = sc[c].msg
  /\ sc' = [sc EXCEPT ![c].pc =
              IF sc[c].msg # published_shell_cmd \/ unpublished = TRUE
              THEN "publish" ELSE "start"]
  /\ UNCHANGED << ld_sensors, rd, timers, issued, published_shell_cmd,
                  backlight, backlight_published, workers >>
  /\ UNCHANGED raceFixed
  /\ UNCHANGED startVars

\* lines 1057-1062: client.publish returns and the command stored by now is
\* taken as published
ScPublish(c) ==
  /\ sc[c].pc = "publish"
  /\ published_shell_cmd' = shell_cmd
  /\ sc' = [sc EXCEPT ![c].pc = "start"]
  /\ UNCHANGED << ld_sensors, rd, timers, issued, shell_cmd,
                  backlight, backlight_published, workers >>
  /\ UNCHANGED raceFixed
  /\ UNCHANGED startVars

\* lines 874-877: the worker thread is started and _set_shell_cmd returns
ScStart(c) ==
  /\ sc[c].pc = "start"
  /\ Len(workers) < MaxWorkers
  /\ workers' = Append(workers, commands[sc[c].msg])
  /\ sc' = [sc EXCEPT ![c] = ScOut]
  /\ rd' = IF c \in Sensors THEN [rd EXCEPT ![c].pc = "delayed"] ELSE rd
  /\ UNCHANGED << ld_sensors, timers, issued, shell_cmd, published_shell_cmd,
                  backlight, backlight_published >>
  /\ UNCHANGED raceFixed
  /\ UNCHANGED startVars

\* lines 617-637: raw true cancels the timer and sets the delayed state, raw
\* false cancels the timer and starts a new one
RdDelayed(sensor_id) ==
  /\ rd[sensor_id].pc = "delayed"
  /\ LET s == ld_sensors[sensor_id]
         new_raw_state == Len(TargetsOf[rd[sensor_id].data]) > 0
         cancelled == Cancel(timers[sensor_id], s.timer)
     IN IF new_raw_state
        THEN /\ timers' = [timers EXCEPT ![sensor_id] = Supersede(cancelled)]
             /\ ld_sensors' = [ld_sensors EXCEPT ![sensor_id].timer = << >>,
                                                 ![sensor_id].occupied_delayed = TRUE]
        ELSE \E k \in 1..MaxTimers :
               /\ cancelled[k].st = "free"
               /\ \A j \in 1..(k - 1) : cancelled[j].st # "free"
               /\ timers' = [timers EXCEPT ![sensor_id] =
                               [cancelled EXCEPT ![k].st = "waiting"]]
               /\ ld_sensors' = [ld_sensors EXCEPT ![sensor_id].timer = << k >>]
  /\ rd' = [rd EXCEPT ![sensor_id].pc = "data"]
  /\ UNCHANGED << sc, issued, shell_cmd, published_shell_cmd, backlight,
                  backlight_published, workers >>
  /\ UNCHANGED raceFixed
  /\ UNCHANGED startVars

\* lines 640-651 and 666-668: the snapshot is rebuilt and, after a
\* significant change, _publish_ld2450 enters client.publish with it
RdData(sensor_id) ==
  /\ rd[sensor_id].pc = "data"
  /\ LET s == ld_sensors[sensor_id]
         targets == TargetsOf[rd[sensor_id].data]
         data == [ occupied |-> s.occupied,
                   occupied_delayed |-> s.occupied_delayed,
                   target_count |-> Len(targets),
                   targets |-> targets ]
         payload == JsonDumps(data)
     IN IF rd[sensor_id].significant_change
        THEN /\ ld_sensors' = [ld_sensors EXCEPT ![sensor_id].data = data,
                                                 ![sensor_id].last_count = Len(targets)]
             /\ rd' = [rd EXCEPT ![sensor_id] =
                         IF payload # s.pub_data
                         THEN [RdIdle EXCEPT !.pc = "publish", !.payload = payload]
                         ELSE RdIdle]
        ELSE /\ ld_sensors' = [ld_sensors EXCEPT ![sensor_id].data = data]
             /\ rd' = [rd EXCEPT ![sensor_id] = RdIdle]
  /\ UNCHANGED << sc, timers, issued, shell_cmd, published_shell_cmd, backlight,
                  backlight_published, workers >>
  /\ UNCHANGED raceFixed
  /\ UNCHANGED startVars

\* lines 668-670: client.publish returns to the reader
RdPublish(sensor_id) ==
  /\ rd[sensor_id].pc = "publish"
  /\ ld_sensors' = [ld_sensors EXCEPT ![sensor_id].pub_data = rd[sensor_id].payload]
  /\ rd' = [rd EXCEPT ![sensor_id] = RdIdle]
  /\ UNCHANGED << sc, timers, issued, shell_cmd, published_shell_cmd, backlight,
                  backlight_published, workers >>
  /\ UNCHANGED raceFixed
  /\ UNCHANGED startVars

\* a Timer thread's wait ends without a cancel: it goes on to call
\* _delayed_off
TmExpire(sensor_id, k) ==
  /\ timers[sensor_id][k].st = "waiting"
  /\ timers' = [timers EXCEPT ![sensor_id][k].st = "fired"]
  /\ UNCHANGED << ld_sensors, rd, sc, issued, shell_cmd, published_shell_cmd,
                  backlight, backlight_published, workers >>
  /\ UNCHANGED raceFixed
  /\ UNCHANGED startVars

\* line 657
TmOff(sensor_id, k) ==
  /\ timers[sensor_id][k].st = "fired"
  /\ ld_sensors' = [ld_sensors EXCEPT ![sensor_id].occupied_delayed = FALSE]
  /\ timers' = [timers EXCEPT ![sensor_id][k].st = "clear"]
  /\ UNCHANGED << rd, sc, issued, shell_cmd, published_shell_cmd,
                  backlight, backlight_published, workers >>
  /\ UNCHANGED raceFixed
  /\ UNCHANGED startVars

\* lines 658-668: the handle is cleared and _publish_ld2450 enters
\* client.publish when the snapshot differs from the published one
TmClear(sensor_id, k) ==
  /\ timers[sensor_id][k].st = "clear"
  /\ ld_sensors' = [ld_sensors EXCEPT ![sensor_id].timer = << >>]
  /\ LET payload == JsonDumps(ld_sensors[sensor_id].data) IN
     timers' = [timers EXCEPT ![sensor_id][k] =
                  IF payload # ld_sensors[sensor_id].pub_data
                  THEN [@ EXCEPT !.st = "publish", !.payload = payload]
                  ELSE TmFree]
  /\ UNCHANGED << rd, sc, issued, shell_cmd, published_shell_cmd,
                  backlight, backlight_published, workers >>
  /\ UNCHANGED raceFixed
  /\ UNCHANGED startVars

\* lines 668-670: client.publish returns to the Timer thread
TmPublish(sensor_id, k) ==
  /\ timers[sensor_id][k].st = "publish"
  /\ ld_sensors' = [ld_sensors EXCEPT ![sensor_id].pub_data = timers[sensor_id][k].payload]
  /\ timers' = [timers EXCEPT ![sensor_id][k] = TmFree]
  /\ UNCHANGED << rd, sc, issued, shell_cmd, published_shell_cmd,
                  backlight, backlight_published, workers >>
  /\ UNCHANGED raceFixed
  /\ UNCHANGED startVars

\* a worker's command ends
WorkerEnds(k) ==
  /\ k \in 1..Len(workers)
  /\ SetSh(thread_shell_cmd_func(Sh, k, 0).sh)
  /\ UNCHANGED << ld_sensors, rd, sc, timers, issued >>
  /\ UNCHANGED raceFixed
  /\ UNCHANGED startVars

\* the first radar alone, no backlight feature, the transport takes every
\* publish
InitRace ==
  /\ InitClient /\ BACKLIGHT = FALSE
  /\ LD2450_2 = FALSE /\ rcs = {0} /\ track = FALSE
  /\ Started

NextRace ==
  \/ \E i \in Sensors, data \in RaceFrames : RdFrame(i, data)
  \/ \E i \in Sensors : RdAny(i)
  \/ \E i \in Sensors : RdCall(i)
  \/ \E c \in Callers : ScRun(c)
  \/ \E c \in Callers : ScPublish(c)
  \/ \E c \in Callers : ScStart(c)
  \/ \E i \in Sensors : RdDelayed(i)
  \/ \E i \in Sensors : RdData(i)
  \/ \E i \in Sensors : RdPublish(i)
  \/ \E i \in Sensors, k \in 1..MaxTimers : TmExpire(i, k)
  \/ \E i \in Sensors, k \in 1..MaxTimers : TmOff(i, k)
  \/ \E i \in Sensors, k \in 1..MaxTimers : TmClear(i, k)
  \/ \E i \in Sensors, k \in 1..MaxTimers : TmPublish(i, k)
  \/ \E k \in 1..Len(workers) : WorkerEnds(k)

SpecRace == InitRace /\ [][NextRace]_vars

\* both radars, no backlight feature, the transport takes every publish
InitIntent ==
  /\ InitClient /\ BACKLIGHT = FALSE
  /\ LD2450_2 = TRUE /\ rcs = {0} /\ track = FALSE
  /\ Started

\* the two readers and the workers, while no off-delay runs out and no
\* command arrives from the bus
NextIntent ==
  \/ \E i \in Sensors, data \in RaceFrames : RdFrame(i, data)
  \/ \E i \in Sensors : RdAny(i)
  \/ \E i \in Sensors : RdCall(i)
  \/ \E c \in Callers : ScRun(c)
  \/ \E c \in Callers : ScPublish(c)
  \/ \E c \in Callers : ScStart(c)
  \/ \E i \in Sensors : RdDelayed(i)
  \/ \E i \in Sensors : RdData(i)
  \/ \E i \in Sensors : RdPublish(i)
  \/ \E k \in 1..Len(workers) : WorkerEnds(k)

SpecIntent == InitIntent /\ [][NextIntent]_vars

\* the first radar's reader, the bus client's dispatch thread and the
\* workers, while no off-delay runs out
NextBus ==
  \/ \E i \in Sensors, data \in RaceFrames : RdFrame(i, data)
  \/ \E i \in Sensors : RdAny(i)
  \/ \E i \in Sensors : RdCall(i)
  \/ \E payload \in {"REBOOT"} : ScCall(payload)
  \/ \E c \in Callers : ScRun(c)
  \/ \E c \in Callers : ScPublish(c)
  \/ \E c \in Callers : ScStart(c)
  \/ \E i \in Sensors : RdDelayed(i)
  \/ \E i \in Sensors : RdData(i)
  \/ \E i \in Sensors : RdPublish(i)
  \/ \E k \in 1..Len(workers) : WorkerEnds(k)

SpecBus == InitRace /\ [][NextBus]_vars

(***************************************************************************)
(* Properties                                                              *)
(***************************************************************************)
\* the sensors whose raw state is occupied
Occ == {i \in Sensors : ld_sensors[i].occupied}

\* the sensors whose raw state is occupied after the step
OccNext == {i \in Sensors : ld_sensors'[i].occupied}

C3_SingleFlight ==
  shell_cmd # IDLE =>
    /\ \A payload \in ShellPayloads, rcB \in RC, rcS \in RC :
         StripUpper(payload) \in DOMAIN commands =>
           LET r == set_shell_cmd(Sh, payload, rcB, rcS) IN
           /\ r.sh = Sh
           /\ r.pubs = << >>
           /\ r.log = << "Shell command already running skip" >>
    /\ \A i \in Sensors, data \in Frames, rcB \in RC, rcS \in RC :
         LET r == parse_ld2450(ld_sensors, Sh, i, data, rcB, rcS, 0) IN
         r.intents # << >> =>
           /\ r.sh = Sh
           /\ CallsFor(r.pubs, "shell") = << >>
           /\ CallsFor(r.pubs, "backlight") = << >>
           /\ r.log = << "Shell command already running skip" >>

\* a request has just been rejected while DISPLAYEIN runs in its one worker
C3_Witness ==
  /\ shell_cmd = "DISPLAYEIN"
  /\ workers = << commands["DISPLAYEIN"] >>
  /\ out.log = << "Shell command already running skip" >>

\* C4: a frame that takes the set of raw-occupied sensors from non-empty to
\* empty issues the intent displayaus, one that takes it from empty to
\* non-empty issues displayein, and the intent a frame issues is chosen by
\* the emptiness of the set over all sensors, not by the sensor of the frame.
C4_AggregateIntent ==
  [][/\ (Occ # {} /\ OccNext = {}) => out'.intents = << "displayaus" >>
     /\ (Occ = {} /\ OccNext # {}) => out'.intents = << "displayein" >>
     /\ \A k \in 1..Len(out'.intents) :
          out'.intents[k] = IF OccNext # {} THEN "displayein" ELSE "displayaus"]_vars

\* sensor 1 went unoccupied while sensor 2 was occupied, then a frame of
\* sensor 2 emptied the set and displayaus was issued
C4_Witness ==
  /\ Occ = {}
  /\ phase[1] = "off" /\ sinceOff[1] = << ClockStep >>
  /\ phase[2] = "off" /\ sinceOff[2] = << 0 >>
  /\ out.intents = << "displayaus" >>

\* C5: an intent is issued only when the set of raw-occupied sensors changes
\* between empty and non-empty: a raw change of one sensor that leaves the
\* set non-empty issues none.
C5_OnlyOnAggregateChange ==
  [][out'.intents # << >> => ((Occ = {}) # (OccNext = {}))]_vars

\* C6: with two sensors, sensor 1 raw-occupied and sensor 2 idle: the frame
\* that makes sensor 1 unoccupied issues exactly one displayaus, the frame
\* that then makes sensor 2 occupied issues exactly one displayein, and a
\* step that changes no sensor's raw state issues no intent.
C6_TwoSensors ==
  [][/\ (Occ = {1} /\ OccNext = {}) => out'.intents = << "displayaus" >>
     /\ (Occ = {} /\ phase[1] \in {"off", "expired"} /\ OccNext = {2})
          => out'.intents = << "displayein" >>
     /\ (OccNext = Occ) => out'.intents = << >>]_vars

\* sensor 1 went unoccupied, then sensor 2 became occupied and displayein
\* was issued once
C6_Witness ==
  /\ Occ = {2}
  /\ phase[1] \in {"off", "expired"}
  /\ phase[2] = "true1"
  /\ out.intents = << "displayein" >>
  /\ ld_sensors[2].last_count = 1

\* every call in calls was accepted by the transport
AllAccepted(calls) == \A k \in 1..Len(calls) : calls[k].rc = 0

\* C7 as stated: two consecutive publish ticks with no change of a channel's
\* value between them, neither a forced resync, make at most one publish
\* call for that channel.
C7_AtMostOneCall ==
  Len(watch) = 3 => Len(watch[2]) + Len(watch[3]) <= 1

\* C7, amended: two consecutive publish ticks with no change of a channel's
\* value between them, neither a forced resync, make at most one publish
\* call for that channel, unless the call of the first tick was refused by
\* the transport, which the second tick then repeats.
C7_AtMostOneCallUnlessRefused ==
  (Len(watch) = 3 /\ AllAccepted(watch[2]))
    => Len(watch[2]) + Len(watch[3]) <= 1

\* the first of two ticks published the shell value, the second nothing
C7_Witness ==
  /\ Len(watch) = 3
  /\ watch[1] = "shell"
  /\ Len(watch[2]) = 1 /\ watch[2][1].rc = 0
  /\ watch[3] = << >>

\* the last published value of a topic
Published(topic, sensors, sh) ==
  CASE topic = "backlight" -> sh.backlight_published
    [] topic = "shell" -> sh.published_shell_cmd
    [] topic = "ld2450" -> sensors[1].pub_data
    [] topic = "ld2450_2" -> sensors[2].pub_data

\* a handler that made the calls pubs and left sensors and sh: a last
\* published value moved only with an accepted call, and a refused call
\* left it alone and is made again by the publish tick that follows
AdvancedOnSuccess(sensors, sh, pubs) ==
  \A ch \in Registered :
    LET calls == CallsFor(pubs, ch)
        again == CallsFor(publish_tick(sensors, sh, 0, 0, 0).pubs, ch)
    IN /\ Published(ch, sensors, sh) # Published(ch, ld_sensors, Sh)
            => (calls # << >> /\ AllAccepted(calls))
       /\ (calls # << >> /\ ~AllAccepted(calls))
            => /\ Published(ch, sensors, sh) = Published(ch, ld_sensors, Sh)
               /\ Len(again) = 1
               /\ again[1].payload = calls[Len(calls)].payload

\* C8: on every channel the last published value is advanced only by a
\* publish call with result code 0; a refused call leaves it unchanged and
\* the next publish tick attempts the same value again.  Checked for the
\* calls of _set_shell_cmd, of _parse_ld2450, of _delayed_off and of a tick.
C8_RetryAfterRefusal ==
  /\ \A payload \in ShellPayloads, rcB \in RC, rcS \in RC :
       LET r == set_shell_cmd(Sh, payload, rcB, rcS) IN
       AdvancedOnSuccess(ld_sensors, r.sh, r.pubs)
  /\ \A i \in Sensors, data \in Frames, rcB \in RC, rcS \in RC, rcR \in RC :
       (i = 2 => LD2450_2) =>
         LET r == parse_ld2450(ld_sensors, Sh, i, data, rcB, rcS, rcR) IN
         AdvancedOnSuccess(r.sensors, r.sh, r.pubs)
  /\ \A i \in Sensors, rc \in RC :
       ((i = 2 => LD2450_2) /\ ld_sensors[i].timer = << 0 >>) =>
         LET r == delayed_off(ld_sensors[i], i, rc) IN
         AdvancedOnSuccess([ld_sensors EXCEPT ![i] = r.s], Sh, r.pubs)
  /\ \A rcS \in RC, rc1 \in RC, rc2 \in RC :
       LET r == publish_tick(ld_sensors, Sh, rcS, rc1, rc2) IN
       AdvancedOnSuccess(r.sensors, r.sh, r.pubs)

\* the payload that reports the current value of a topic
Payload(topic) ==
  CASE topic = "backlight" -> backlight
    [] topic = "shell" -> Capitalize(shell_cmd)
    [] topic = "ld2450" -> JsonDumps(ld_sensors[1].data)
    [] topic = "ld2450_2" -> JsonDumps(ld_sensors[2].data)

\* C9: with the force-resync flag set, the next publish tick publishes the
\* current value of every registered channel once, also a value equal to the
\* last published one: the radar channels, the backlight channel (when the
\* feature is on and a power state is cached) and the shell channel.
C9_ResyncPublishesAll ==
  unpublished =>
    LET t == publish_tick(ld_sensors, Sh, 0, 0, 0) IN
    \A ch \in Registered :
      (ch = "backlight" => (BACKLIGHT /\ backlight # None)) =>
        /\ Len(CallsFor(t.pubs, ch)) = 1
        /\ CallsFor(t.pubs, ch)[1].payload = Payload(ch)

\* C10: a sensor's snapshot is sent only when a significant change was marked
\* for the sensor and its serialized form differs from the last one sent:
\* by _parse_ld2450 only for a frame that marks one, by _delayed_off only a
\* snapshot that differs, and by the publish tick not at all after a frame
\* that marked none when nothing was left to send before that frame.
C10_OnlySignificantSent ==
  \A i \in Sensors :
    (i = 2 => LD2450_2) =>
      /\ \A data \in Frames :
           LET r == parse_ld2450(ld_sensors, Sh, i, data, 0, 0, 0)
               sent == CallsFor(r.pubs, LdTopic(i))
               tick == publish_tick(r.sensors, r.sh, 0, 0, 0)
           IN /\ sent # << >>
                   => /\ r.significant_change
                      /\ sent[1].payload # ld_sensors[i].pub_data
              /\ (/\ ld_sensors[i].pub_data = JsonDumps(ld_sensors[i].data)
                  /\ ~r.significant_change)
                   => CallsFor(tick.pubs, LdTopic(i)) = << >>
      /\ ld_sensors[i].timer = << 0 >> =>
           LET r == delayed_off(ld_sensors[i], i, 0) IN
           \A k \in 1..Len(r.pubs) : r.pubs[k].payload # ld_sensors[i].pub_data

\* x of slot k (0..2) of a 24-byte payload: bytes 0-1 of the slot
SlotX(data, k) == from_bytes(SubSeq(data, 8 * k + 1, 8 * k + 2))

\* y of slot k (0..2) of a 24-byte payload: bytes 2-3 of the slot
SlotY(data, k) == from_bytes(SubSeq(data, 8 * k + 3, 8 * k + 4))

\* t lists exactly the slots of data whose y is not zero, in slot order,
\* each with id = slot index + 1
ListsValidSlots(t, data) ==
  /\ Len(t) <= 3
  /\ \A j \in 1..Len(t) :
       /\ t[j].id \in 1..3
       /\ t[j].y_mm = SlotY(data, t[j].id - 1) /\ t[j].y_mm # 0
       /\ t[j].x_mm = SlotX(data, t[j].id - 1)
       /\ j > 1 => t[j - 1].id < t[j].id
  /\ \A k \in 0..2 :
       SlotY(data, k) # 0 => \E j \in 1..Len(t) : t[j].id = k + 1

\* C12: for every 24-byte payload the decoded target list holds exactly the
\* slots whose y is not zero, whatever x is, in slot order and with
\* id = slot index + 1; it has at most 3 entries and none with y = 0.  Checked
\* on the list _parse_ld2450 stores for every payload a sensor can receive.
C12_ValidSlotsOnly ==
  \A i \in Sensors, data \in Frames :
    LET r == parse_ld2450(ld_sensors, Sh, i, data, 0, 0, 0) IN
    /\ ListsValidSlots(r.sensors[i].data.targets, data)
    /\ r.sensors[i].data.target_count = Len(r.sensors[i].data.targets)

\* a sensor has stored the targets of slots 1 and 3 of a payload whose slot 2
\* is empty
C12_Witness ==
  \E i \in Sensors :
    LET t == ld_sensors[i].data.targets IN
    /\ Len(t) = 2
    /\ t[1].id = 1 /\ t[2].id = 3
    /\ t[2].x_mm = 3 /\ t[2].y_mm = 4

\* C13: when a sensor's off-delay timer expires, not cancelled, _delayed_off
\* sets occupied_delayed to false and publishes the sensor's snapshot, and
\* the published snapshot says occupied_delayed = false.
C13_ExpiryPublishesIdle ==
  \A i \in Sensors :
    ld_sensors[i].timer = << 0 >> =>
      LET r == delayed_off(ld_sensors[i], i, 0) IN
      /\ ~r.s.occupied_delayed
      /\ Len(r.pubs) = 1
      /\ r.pubs[1].topic = LdTopic(i)
      /\ r.pubs[1].payload[3] = "occupied_delayed"
      /\ r.pubs[1].payload[4] = FALSE

\* the shell and backlight attributes after the step
ShNext == [ shell_cmd |-> shell_cmd', published_shell_cmd |-> published_shell_cmd',
            backlight |-> backlight', backlight_published |-> backlight_published',
            workers |-> workers' ]

\* C14: an accepted request makes its id the current command and starts a
\* worker with the command line of the table; when the worker's command
\* ends, with exit status 0 or not, shell_cmd goes back to IDLE, and from
\* then on a request for a command of the table is accepted again.
C14_RunLifecycle ==
  [][/\ Len(workers') > Len(workers)
          => /\ shell_cmd = IDLE
             /\ shell_cmd' \in DOMAIN commands
             /\ workers' = Append(workers, commands[shell_cmd'])
     /\ Len(workers') < Len(workers)
          => /\ shell_cmd \in DOMAIN commands
             /\ shell_cmd' = IDLE
             /\ \A payload \in ShellPayloads :
                  StripUpper(payload) \in DOMAIN commands =>
                    LET r == set_shell_cmd(ShNext, payload, 0, 0) IN
                    /\ r.sh.shell_cmd = StripUpper(payload)
                    /\ r.sh.workers = << commands[StripUpper(payload)] >>]_vars

\* a command that was accepted and published has ended with a non-zero exit
\* status, and the executor is idle with no worker left
C14_Witness ==
  /\ shell_cmd = IDLE
  /\ workers = << >>
  /\ published_shell_cmd = "REBOOT"
  /\ out.log = << "Error executing command" >>

\* the power state a display power alias stands for
PowerOf(msg) == IF msg = "DISPLAYEIN" THEN "ON" ELSE "OFF"

\* what _set_shell_cmd does to backlight for every request it can get in
\* this state; an accepted alias must be published on the backlight topic
\* in every case (every), or else when its power state is not the last
\* published one or a resync is forced
PowerStateSynced(every) ==
  BACKLIGHT =>
    \A payload \in ShellPayloads, rcB \in RC, rcS \in RC :
      LET msg == StripUpper(payload)
          r == set_shell_cmd(Sh, payload, rcB, rcS)
          calls == CallsFor(r.pubs, "backlight")
      IN IF msg \in {"DISPLAYEIN", "DISPLAYAUS"} /\ shell_cmd = IDLE
         THEN /\ r.sh.backlight = PowerOf(msg)
              /\ r.sh.workers = Append(workers, commands[msg])
              /\ (every \/ backlight_published # PowerOf(msg) \/ unpublished)
                   => /\ r.pubs # << >>
                      /\ r.pubs[1] = Pub("backlight", PowerOf(msg), rcB)
              /\ Len(calls) <= 1
         ELSE IF msg \in DOMAIN commands /\ shell_cmd = IDLE
         THEN r.sh.backlight = backlight /\ calls = << >>
         ELSE r.sh = Sh /\ r.pubs = << >>

\* C15 as stated: with the backlight feature on, an accepted DISPLAYEIN or
\* DISPLAYAUS sets backlight to ON or OFF and publishes it on the backlight
\* topic before the worker is started; a rejected or unknown request leaves
\* backlight alone.
C15_PowerStatePublished == PowerStateSynced(TRUE)

\* C15, amended: with the backlight feature on, an accepted DISPLAYEIN or
\* DISPLAYAUS sets backlight to ON or OFF before the worker is started, and
\* publishes it on the backlight topic first of all unless it equals the
\* last published backlight value and no resync is forced; a rejected or
\* unknown request leaves backlight alone.
C15_PowerStateSyncedDiff == PowerStateSynced(FALSE)

\* DISPLAYAUS was accepted: OFF is cached and published while its worker runs
C15_Witness ==
  /\ BACKLIGHT
  /\ shell_cmd = "DISPLAYAUS"
  /\ workers = << commands["DISPLAYAUS"] >>
  /\ backlight = "OFF"
  /\ backlight_published = "OFF"

\* the number of slots of a payload whose y is not zero
ValidCount(data) == Cardinality({k \in 0..2 : SlotY(data, k) # 0})


\* the snapshot of OneTargetFrame on a fresh sensor
OneTargetSnapshot ==
  [ occupied |-> TRUE, occupied_delayed |-> TRUE, target_count |-> 1,
    targets |-> << [id |-> 1, x_mm |-> 100, y_mm |-> 200, dist_mm |-> 2236] >> ]

\* C17: on a sensor still in its initial state, a frame with n >= 1 valid
\* targets is stored and published as a snapshot with occupied = true,
\* occupied_delayed = true, target_count = n and the n targets in slot order;
\* the frame with target 1 at (100, 200) and two zero slots gives that
\* target alone, at distance 223.6.
C17_FirstFrameSnapshot ==
  \A i \in Sensors, data \in Frames :
    (ld_sensors[i] = InitSensor /\ ValidCount(data) >= 1 /\ (i = 2 => LD2450_2)) =>
      LET r == parse_ld2450(ld_sensors, Sh, i, data, 0, 0, 0)
          d == r.sensors[i].data
      IN /\ d.occupied /\ d.occupied_delayed
         /\ d.target_count = ValidCount(data)
         /\ Len(d.targets) = ValidCount(data)
         /\ ListsValidSlots(d.targets, data)
         /\ CallsFor(r.pubs, LdTopic(i)) = << Pub(LdTopic(i), JsonDumps(d), 0) >>
         /\ r.sensors[i].pub_data = JsonDumps(d)
         /\ data = OneTargetFrame => d = OneTargetSnapshot

\* sensor 1 has published the snapshot of the one-target frame as its first
\* occupancy, sensor 2 is still fresh
C17_Witness ==
  /\ ld_sensors[2] = InitSensor
  /\ ld_sensors[1].pub_data = JsonDumps(OneTargetSnapshot)
  /\ ld_sensors[1].data = OneTargetSnapshot
  /\ phase[1] = "true1"
  /\ sinceOff[1] = << >>

\* the buffer holds a whole frame with this payload: the header, the 24
\* payload bytes right behind it and the tail right behind those
Framed(w, payload) ==
  \E k \in 1..Len(w) : SubSeq(w, k, k + Len(FrameOf(payload)) - 1) = FrameOf(payload)

\* the buffer holds a whole frame
HoldsFrame(w) ==
  \E k \in 1..Len(w) :
    /\ k + Len(REPORT_HEADER) + PayloadLen + Len(REPORT_TAIL) - 1 <= Len(w)
    /\ SubSeq(w, k, k + Len(REPORT_HEADER) - 1) = REPORT_HEADER
    /\ SubSeq(w, k + Len(REPORT_HEADER) + PayloadLen,
              k + Len(REPORT_HEADER) + PayloadLen + Len(REPORT_TAIL) - 1) = REPORT_TAIL

\* the sensor states after a turn of reader i's loop on the bytes w, the
\* transport taking every publish
AfterTurn(i, w) ==
  LET f == ld2450_read(w) IN
  IF f # << >> THEN parse_ld2450(ld_sensors, Sh, i, f[1], 0, 0, 0).sensors
  ELSE ld_sensors

\* C11: the reader takes a payload out of the waiting bytes only if they hold
\* the header, right behind it 24 payload bytes and right behind those the
\* tail; from every other buffer (too short, another or no tail at that
\* place, no header) it takes nothing, so that no sensor state is updated.
C11_OnlyFramedAccepted ==
  \A i \in Sensors, w \in Buffers :
    (reader[i] = "running" /\ ~HoldsFrame(w)) =>
      ld2450_read(w) = << >> /\ AfterTurn(i, w) = ld_sensors

\* the bytes end with a whole frame and hold no tail before its tail
EndsWithFrame(w) ==
  /\ Len(w) >= Len(REPORT_HEADER) + PayloadLen + Len(REPORT_TAIL)
  /\ SubSeq(w, Len(w) - Len(REPORT_TAIL) - PayloadLen - Len(REPORT_HEADER) + 1,
            Len(w) - Len(REPORT_TAIL) - PayloadLen) = REPORT_HEADER
  /\ Find(w, REPORT_TAIL) = Len(w) - Len(REPORT_TAIL) + 1

\* the payload of the frame the bytes end with
LastPayload(w) ==
  SubSeq(w, Len(w) - Len(REPORT_TAIL) - PayloadLen + 1, Len(w) - Len(REPORT_TAIL))

\* C18: when the bytes waiting for a running reader are stray or partial
\* frame bytes followed by a whole frame, the reader drops what stands before
\* the frame and decodes the frame with exactly its own 24 payload bytes: the
\* sensor state after the turn is the one the frame's payload gives.
C18_ResyncOnNextFrame ==
  \A i \in Sensors, w \in Buffers :
    (reader[i] = "running" /\ EndsWithFrame(w)) =>
      /\ ld2450_read(w) = << LastPayload(w) >>
      /\ AfterTurn(i, w) =
           parse_ld2450(ld_sensors, Sh, i, LastPayload(w), 0, 0, 0).sensors

\* C16: a text that is not recognised is logged and ignored.  A shell payload
\* that is no key of the command table leaves the command id, the cached
\* power state, the last-published values and the workers as they are, makes
\* no publish call and logs a line; a radar directive outside VERSION, REBOOT,
\* SINGLE, MULTI, QUERY, BAUD n, FACTORY_RESET, BT_ON and BT_OFF logs a line
\* and sends the radar no command, whether or not its port opens.
C16_UnknownLoggedIgnored ==
  /\ \A payload \in ShellPayloads :
       StripUpper(payload) \notin DOMAIN commands =>
         LET r == set_shell_cmd(Sh, payload, 0, 0)
         IN r.sh = Sh /\ r.pubs = << >> /\ r.log # << >>
  /\ \A msg \in Directives, open_ok \in BOOLEAN, conf_ok \in BOOLEAN, op_ok \in BOOLEAN :
       UpperStrip(msg) \notin Recognised =>
         LET r == set_ld2450_command(LD2450, msg, open_ok, conf_ok, op_ok)
         IN /\ r.log # << >>
            /\ \A k \in DOMAIN r.radar :
                 r.radar[k] \in {"enable_configuration_mode", "end_configuration_mode"}

\* the sensor state has the values __init__ gave it; the publish tick may
\* have published its idle snapshot
IdleValues(s) ==
  /\ [s EXCEPT !.pub_data = NoData] = InitSensor
  /\ s.pub_data \in {NoData, JsonDumps(InitSensor.data)}

\* a sensor whose serial port cannot be opened has no running reader and
\* keeps its initial state; beside a reader that ended, the other sensor's
\* reader takes its turns and decodes a frame, the executor takes a command
\* when it is idle and the publish tick runs
C19_Disabled ==
  \A i \in Sensors :
    /\ ~port_ok[i] => reader[i] # "running" /\ IdleValues(ld_sensors[i])
    /\ reader[i] = "crashed" =>
         /\ \A j \in Sensors \ {i} :
              reader[j] = "running" =>
                /\ AfterTurn(j, FrameOf(OneTargetFrame))[j].occupied
                /\ AfterTurn(j, FrameOf(OneTargetFrame))[i] = ld_sensors[i]
                /\ publish_tick(ld_sensors, Sh, 0, 0, 0).sensors[j].pub_data
                     = JsonDumps(ld_sensors[j].data)
         /\ shell_cmd = IDLE =>
              set_shell_cmd(Sh, "REBOOT", 0, 0).sh.workers = << commands["REBOOT"] >>
         /\ publish_tick(ld_sensors, Sh, 0, 0, 0).sh.published_shell_cmd = shell_cmd

\* a reader ends only in the step in which it fails to open its port, that
\* step logs the crash, no other step does, and a reader that ended stays so
C19_NoRetry ==
  \A i \in Sensors :
    /\ reader[i] = "crashed" => reader'[i] = "crashed"
    /\ (reader[i] # "crashed" /\ reader'[i] = "crashed") =>
         /\ reader[i] = "starting" /\ ~port_ok[i]
         /\ out'.log = << "Thread Crash" >>
    /\ (reader[i] = "starting" /\ ~port_ok[i] /\ reader'[i] # reader[i]) =>
         reader'[i] = "crashed"

\* a step that logs the crash is one in which a reader ends
C19_LoggedOnce ==
  out'.log = << "Thread Crash" >> =>
    \E i \in Sensors : reader[i] = "starting" /\ reader'[i] = "crashed"

\* C19: if a sensor's serial port cannot be opened at start-up, its reader
\* ends after logging once and is never started again, the sensor's state
\* stays at the initial idle values for good, and the other sensor's reader,
\* the command executor and the publish tick keep operating.
C19_PortFailureDisablesSensor ==
  []C19_Disabled /\ [][C19_NoRetry /\ C19_LoggedOnce]_vars

\* the first radar's reader has just ended on its port and logged it; the
\* sensor is in its initial state while the second sensor, its reader
\* running, has decoded a target
C19_Witness ==
  /\ ~port_ok[1] /\ reader[1] = "crashed" /\ reader[2] = "running"
  /\ out.log = << "Thread Crash" >>
  /\ IdleValues(ld_sensors[1])
  /\ ld_sensors[2].occupied

\* C20: when the [panels] section holds an item whose URL is not well formed
\* or whose name, as it is stored, is one of the reserved panel names
\* DEFAULT, URL, BLANK and RELOAD, start-up ends the process: the process
\* runs only on a section without such an item.
C20_BadPanelsFatal ==
  process = "running" =>
    \A k \in DOMAIN config :
      config[k].url_ok /\ Upper(config[k].key) \notin reserved_panel_names

\* d tenths of a millimetre is the square root of x^2 + y^2 rounded to one
\* decimal place: the root lies within half a tenth of d
RoundedRoot(d, x, y) ==
  /\ d >= 0
  /\ (2 * d - 1) * (2 * d - 1) <= 400 * (x * x + y * y)
  /\ 400 * (x * x + y * y) < (2 * d + 1) * (2 * d + 1)

\* the targets of the snapshot obey the distance law
DistanceLaw(targets) ==
  \A k \in DOMAIN targets :
    RoundedRoot(targets[k].dist_mm, targets[k].x_mm, targets[k].y_mm)

\* C21: the dist_mm of every decoded target, in the snapshot a sensor holds
\* and in the one any frame would give, is the square root of x^2 + y^2
\* rounded to one decimal place; x = 100, y = 200 gives 223.6.
C21_DistanceLaw ==
  /\ \A i \in Sensors : DistanceLaw(ld_sensors[i].data.targets)
  /\ \A i \in Sensors, data \in Frames :
       LET t == parse_ld2450(ld_sensors, Sh, i, data, 0, 0, 0).sensors[i].data.targets
       IN /\ DistanceLaw(t)
          /\ data = OneTargetFrame => t[1].dist_mm = 2236

\* a sensor holds the snapshot of the frame with the targets (100, 200) and
\* (3, 4): the distances 223.6 and 5.0
C21_Witness ==
  \E i \in Sensors :
    /\ Len(ld_sensors[i].data.targets) = 2
    /\ ld_sensors[i].data.targets[1].dist_mm = 2236
    /\ ld_sensors[i].data.targets[2].dist_mm = 50
    /\ ld_sensors[i].pub_data = JsonDumps(ld_sensors[i].data)

\* a frame whose number of valid targets differs from the snapshot's
\* target_count while the raw state stays as it is marks a significant
\* change, stores the new target_count and targets in the snapshot and hands
\* it to the publish handler, and leaves the debounce state alone: occupied,
\* occupied_delayed and the timer are unchanged, no power intent is issued
\* and the command executor is not touched.  always: the handler calls
\* publish whatever was published last; else it calls publish unless the
\* snapshot's serialized form is the last one the transport took
CountOnlyChange(always) ==
  \A i \in Sensors, data \in Frames, rcR \in rcs :
    LET s == ld_sensors[i]
        n == ValidCount(data)
    IN ((i = 2 => LD2450_2) /\ (n > 0) = s.occupied /\ n # s.data.target_count) =>
         LET r == parse_ld2450(ld_sensors, Sh, i, data, 0, 0, rcR)
             t == r.sensors[i]
             payload == JsonDumps(t.data)
         IN /\ r.significant_change
            /\ t.data.target_count = n
            /\ Len(t.data.targets) = n
            /\ ListsValidSlots(t.data.targets, data)
            /\ t.last_count = n
            /\ IF always \/ payload # s.pub_data
               THEN /\ r.pubs = << Pub(LdTopic(i), payload, rcR) >>
                    /\ t.pub_data = IF rcR = 0 THEN payload ELSE s.pub_data
               ELSE r.pubs = << >> /\ t.pub_data = payload
            /\ t.occupied = s.occupied
            /\ t.occupied_delayed = s.occupied_delayed
            /\ t.timer = s.timer
            /\ r.intents = << >>
            /\ r.sh = Sh

\* C29 as stated: a frame that changes only target_count marks a significant
\* change, updates the snapshot's target_count and targets and publishes it,
\* and leaves raw_occupied, debounced_occupied and the pending timer
\* unchanged without issuing a power intent.
C29_CountOnlyChange == CountOnlyChange(TRUE)

\* C29, amended: the same, except that the snapshot is not sent again when
\* its serialized form equals the one the transport took last.
C29_CountOnlyChangeDedup == CountOnlyChange(FALSE)

\* sensor 1 went from one target to two and the transport refused the new
\* snapshot: the snapshot and last_count say two, the debounce state is
\* occupied without a timer, and the last snapshot the transport took still
\* says one target, so a frame with that target alone changes the count and
\* equals what was sent
C29_Witness ==
  /\ ld_sensors[1].occupied /\ ld_sensors[1].occupied_delayed
  /\ ld_sensors[1].timer = << >>
  /\ ld_sensors[1].data.target_count = 2
  /\ ld_sensors[1].last_count = 2
  /\ ld_sensors[1].pub_data = JsonDumps(OneTargetSnapshot)

\* occupied says whether there are targets, target_count counts the entries
\* of targets, and there are at most three
Consistent(occupied, target_count, targets) ==
  /\ occupied = (target_count > 0)
  /\ target_count = Len(targets)
  /\ target_count <= 3

\* the same for a serialized snapshot: the values behind its keys
ConsistentPayload(payload) ==
  /\ payload[1] = "occupied" /\ payload[5] = "target_count" /\ payload[7] = "targets"
  /\ Consistent(payload[2], payload[6], payload[8])

\* C30: every snapshot a sensor holds, the last one the transport took from
\* it and every snapshot a frame would make it publish is consistent:
\* occupied = (target_count > 0), target_count is the number of entries of
\* targets, and target_count <= 3.
C30_SnapshotConsistent ==
  \A i \in Sensors :
    /\ Consistent(ld_sensors[i].data.occupied, ld_sensors[i].data.target_count,
                  ld_sensors[i].data.targets)
    /\ ld_sensors[i].pub_data # NoData => ConsistentPayload(ld_sensors[i].pub_data)
    /\ \A data \in Frames :
         LET r == parse_ld2450(ld_sensors, Sh, i, data, 0, 0, 0)
             calls == CallsFor(r.pubs, LdTopic(i))
         IN \A k \in DOMAIN calls : ConsistentPayload(calls[k].payload)

\* sensor 1 is in its off-delay with the empty snapshot published, occupied
\* false beside occupied_delayed true; sensor 2 has published two targets
C30_Witness ==
  /\ ld_sensors[1].timer # << >> /\ ld_sensors[1].occupied_delayed
  /\ ld_sensors[1].pub_data = JsonDumps(ld_sensors[1].data)
  /\ ld_sensors[1].data.target_count = 0 /\ ~ld_sensors[1].data.occupied
  /\ ld_sensors[2].pub_data = JsonDumps(ld_sensors[2].data)
  /\ ld_sensors[2].data.target_count = 2 /\ ld_sensors[2].data.occupied

\* the bytes are one frame: the header, 24 payload bytes and the tail
IsFrame(w) ==
  /\ Len(w) = Len(REPORT_HEADER) + PayloadLen + Len(REPORT_TAIL)
  /\ SubSeq(w, 1, Len(REPORT_HEADER)) = REPORT_HEADER
  /\ SubSeq(w, Len(w) - Len(REPORT_TAIL) + 1, Len(w)) = REPORT_TAIL

\* the 24 payload bytes of a frame
PayloadOf(w) == SubSeq(w, Len(REPORT_HEADER) + 1, Len(REPORT_HEADER) + PayloadLen)

\* C28: a running reader that finds one well-formed frame (header, any 24
\* payload bytes, tail) waiting in its port hands exactly that frame's payload
\* to the parser.
C28_EveryFrameDelivered ==
  \A i \in Sensors, w \in Buffers :
    (reader[i] = "running" /\ IsFrame(w)) => ld2450_read(w) = << PayloadOf(w) >>

\* no thread is inside a handler of the sensor: its reader is between two
\* frames and none of its timers has left its wait
Quiet(i) ==
  /\ rd[i].pc = "idle"
  /\ \A k \in 1..MaxTimers : timers[i][k].st \in {"free", "waiting"}

\* the timers of a sensor that are counting down
Pending(i) == {k \in 1..MaxTimers : timers[i][k].st = "waiting"}

\* C22: whenever no handler of a sensor is running, the sensor is Idle (raw
\* false, debounced false, no pending timer), Occupied (raw true, debounced
\* true, no pending timer) or PendingOff (raw false, debounced true, exactly
\* one pending timer, the one its handle names); so raw true implies
\* debounced true.
C22_ThreeStates ==
  \A i \in Sensors :
    Quiet(i) =>
      LET s == ld_sensors[i] IN
      \/ ~s.occupied /\ ~s.occupied_delayed /\ s.timer = << >> /\ Pending(i) = {}
      \/ s.occupied /\ s.occupied_delayed /\ s.timer = << >> /\ Pending(i) = {}
      \/ /\ ~s.occupied /\ s.occupied_delayed
         /\ s.timer # << >> /\ Pending(i) = {s.timer[1]}

\* C23: a timer that was superseded by a processed raw true event has no
\* effect when its callback runs: it does not turn the debounced state to
\* false and does not clear the handle of a newer timer.
C23_StaleTimerInert ==
  [][\A i \in Sensors, k \in 1..MaxTimers :
       timers[i][k].superseded =>
         /\ (timers[i][k].st = "fired" /\ timers'[i][k].st = "clear") =>
              ld_sensors'[i].occupied_delayed = ld_sensors[i].occupied_delayed
         /\ (timers[i][k].st = "clear" /\ timers'[i][k].st # "clear") =>
              \/ ld_sensors[i].timer \in {<< >>, << k >>}
              \/ ld_sensors'[i].timer = ld_sensors[i].timer]_vars

\* the reader of sensor i is inside _parse_ld2450, between reading the
\* sensor's state and its last write to it
InParse(i) == rd[i].pc # "idle"

\* a Timer thread of sensor i is inside _delayed_off, between its first
\* write to the sensor's state and its last
InDelayedOff(i) ==
  \E k \in 1..MaxTimers : timers[i][k].st \in {"clear", "publish"}

\* C24: the reader's _parse_ld2450 and the timer's _delayed_off are never
\* inside their updates of the same sensor's state at the same time.
C24_SensorMutex == \A i \in Sensors : ~(InParse(i) /\ InDelayedOff(i))

\* the threads that are inside client.publish: readers publishing a
\* snapshot, callers of _set_shell_cmd publishing the command, Timer threads
\* publishing a snapshot
InPublish ==
  {t \in {"reader"} \X Sensors : rd[t[2]].pc = "publish"}
    \cup {t \in {"caller"} \X Callers : sc[t[2]].pc = "publish"}
    \cup {t \in {"timer"} \X (Sensors \X (1..MaxTimers)) :
            timers[t[2][1]][t[2][2]].st = "publish"}

\* C27: at no time are two threads inside the transport's publish call.
C27_PublishSerialized == Cardinality(InPublish) <= 1

\* C25: at most one command worker runs at any time, whichever threads call
\* _set_shell_cmd: two requests that find the executor idle never both
\* start a worker.
C25_SingleWorker == Len(workers) <= 1

\* C26: when both readers have finished processing their frames, the intent
\* a reader issued last is power-on iff at least one sensor is raw-occupied.
C26_LastIntentCurrent ==
  ((\A i \in Sensors : rd[i].pc = "idle") /\ issued # "") =>
    (issued = "displayein" <=> \E i \in Sensors : ld_sensors[i].occupied)

\* v is the 16-bit two's-complement number of the little-endian bytes b
IsSigned16(v, b) ==
  /\ v \in -32768..32767
  /\ v % 65536 = b[1] + 256 * b[2]

\* every target of t has the coordinates its slot's first four bytes encode
DecodesSigned(t, data) ==
  \A j \in 1..Len(t) :
    LET offset == 8 * (t[j].id - 1) IN
    /\ IsSigned16(t[j].x_mm, SubSeq(data, offset + 1, offset + 2))
    /\ IsSigned16(t[j].y_mm, SubSeq(data, offset + 3, offset + 4))

\* the payloads with coordinate bytes above 7F in their high byte included
SignedFrames == Frames \cup {MinusOnePayload, MinusOneReserved}

\* C32: whatever state a sensor is in, the targets it stores for a payload
\* have x and y equal to the signed 16-bit little-endian values of bytes 0-1
\* and 2-3 of their slots, so within -32768..32767; bytes FF FF give -1; and
\* two payloads that differ in the four further bytes of a slot alone give
\* the same targets.
C32_SignedCoordinates ==
  \A i \in Sensors :
    LET After(data) == parse_ld2450(ld_sensors, Sh, i, data, 0, 0, 0).sensors[i].data.targets
    IN /\ \A data \in SignedFrames : DecodesSigned(After(data), data)
       /\ Len(After(MinusOnePayload)) = 1
       /\ After(MinusOnePayload)[1].x_mm = -1 /\ After(MinusOnePayload)[1].y_mm = -1
       /\ After(MinusOneReserved) = After(MinusOnePayload)

\* a sensor has stored a target with a negative x, decoded from the bytes
\* 9C FF of a slot whose further bytes are not zero
C32_Witness ==
  \E i \in Sensors :
    /\ ld_sensors[i].data.target_count = 1
    /\ ld_sensors[i].data.targets[1].x_mm = -100
    /\ ld_sensors[i].data.targets[1].y_mm = 200
    /\ ld_sensors[i].pub_data = JsonDumps(ld_sensors[i].data)

\* C35: a call of _set_ld2450_command that has entered configuration mode
\* ends it as its last exchange with the radar, whatever the directive is and
\* whether or not its exchange fails; a call that failed to enter
\* configuration mode sends the radar no directive.
C35_ConfigModeBracketed ==
  \A msg \in Directives, open_ok \in BOOLEAN, conf_ok \in BOOLEAN, op_ok \in BOOLEAN :
    LET r == set_ld2450_command(LD2450, msg, open_ok, conf_ok, op_ok) IN
    /\ (LD2450 /\ UpperStrip(msg) # "" /\ open_ok /\ conf_ok) =>
         /\ r.radar # << >>
         /\ r.radar[1] = "enable_configuration_mode"
         /\ r.radar[Len(r.radar)] = "end_configuration_mode"
    /\ ~conf_ok =>
         \A k \in DOMAIN r.radar : r.radar[k] = "enable_configuration_mode"

\* C33: with the power sync on, whenever no command run is in progress the
\* cached power state is ON iff at least one sensor is raw-occupied, also
\* after an intent was issued while the executor was busy.
C33_NoIntentLost ==
  (BACKLIGHT /\ shell_cmd = IDLE /\ workers = << >>) =>
    (backlight = "ON" <=> Occ # {})

\* the snapshot the transport took last from sensor i says that the
\* debounced state is false
PublishedIdle(i) ==
  /\ ld_sensors[i].pub_data # NoData
  /\ ld_sensors[i].pub_data[3] = "occupied_delayed"
  /\ ld_sensors[i].pub_data[4] = FALSE

\* C34: a sensor whose raw state went false with the debounced state still
\* true reaches, unless a raw true event arrives, a state in which the
\* debounced state is false and the last snapshot published on its channel
\* says occupied_delayed = false.
C34_OffIsPublished ==
  \A i \in Sensors :
    (~ld_sensors[i].occupied /\ ld_sensors[i].occupied_delayed)
      ~> (ld_sensors[i].occupied
            \/ (~ld_sensors[i].occupied_delayed /\ PublishedIdle(i)))

\* what the shell channel is told in this state.  A known command arriving at
\* the idle executor starts its worker with the id as the last published
\* value, published by a call of its own in every case (every), or else when
\* the id is not the last published value or a resync is forced.  A publish
\* tick at the idle executor leaves the idle sentinel as the last published
\* value, publishing it when it is not that already.
ShellReported(every) ==
  shell_cmd = IDLE =>
    /\ \A payload \in ShellPayloads :
         StripUpper(payload) \in DOMAIN commands =>
           LET msg == StripUpper(payload)
               r == set_shell_cmd(Sh, payload, 0, 0)
               calls == CallsFor(r.pubs, "shell")
           IN /\ r.sh.shell_cmd = msg
              /\ r.sh.workers = Append(workers, commands[msg])
              /\ r.sh.published_shell_cmd = msg
              /\ IF every \/ published_shell_cmd # msg \/ unpublished
                 THEN calls = << Pub("shell", Capitalize(msg), 0) >>
                 ELSE calls = << >>
    /\ LET t == publish_tick(ld_sensors, Sh, 0, 0, 0)
           calls == CallsFor(t.pubs, "shell")
       IN /\ t.sh.published_shell_cmd = IDLE
          /\ IF published_shell_cmd # IDLE \/ unpublished
             THEN calls = << Pub("shell", IDLE, 0) >>
             ELSE calls = << >>

\* an idle executor stays idle until the idle sentinel is the last value
\* published on the shell channel, or a new run is accepted
IdleIsReported ==
  (shell_cmd = IDLE) ~> (shell_cmd # IDLE \/ published_shell_cmd = IDLE)

\* C31 as stated: with a transport that accepts every publish, an accepted
\* run publishes its command id before its worker starts, the publish tick
\* after the run publishes the idle sentinel, and the last value published
\* on the shell channel is eventually the idle sentinel whenever the executor
\* stays idle.
C31_ShellReports == [](ShellReported(TRUE)) /\ IdleIsReported

\* C31, amended: with a transport that accepts every publish, an accepted
\* run has its command id as the last published value before its worker
\* starts, by a publish call of its own unless the id is the last published
\* value already and no resync is forced; the publish tick after the run
\* publishes the idle sentinel, and the last value published on the shell
\* channel is eventually the idle sentinel whenever the executor stays idle.
C31_ShellReportsDedup == [](ShellReported(FALSE)) /\ IdleIsReported

\* DISPLAYEIN runs in its worker for an occupied sensor, published as the
\* last value of the shell channel, after a tick has cleared the resync flag
C31_Witness ==
  /\ shell_cmd = "DISPLAYEIN"
  /\ published_shell_cmd = "DISPLAYEIN"
  /\ workers = << commands["DISPLAYEIN"] >>
  /\ ~unpublished
  /\ ld_sensors[1].occupied

====
